---- MODULE Spec2Model ----
(***************************************************************************)
(* Model of the WireGuard kill switch built on NetworkManager:            *)
(*   wgkillswitch.py                  the facade (WGKillSwitch)            *)
(*   killswitch_connection_handler.py the handler and its route poll       *)
(*   nmclient.py                      the GLib loop bridge (NMClient)      *)
(* The network service is modelled as far as the client observes it: it   *)
(* acts only on requests the program has submitted.                       *)
(***************************************************************************)
EXTENDS Integers, Sequences, FiniteSets, TLC

\* ---------------------------------------------------------------- bounds
\* Facade operations one behaviour may start.
MaxOps == 3
\* Profiles with the same id the service may store at once.
MaxStored == 2
\* Futures alive at the same time (awaited, subscribed or held by a request).
MaxFutures == 2
\* Threads that construct an NMClient.
MaxCallers == 2

\* ---------------------------------------------------------------- values
None == "None"
PyTrue == "True"
PyFalse == "False"
PyBool(b) == IF b THEN PyTrue ELSE PyFalse

\* Coroutines of the caller on its asyncio event loop; MainTasks where the
\* caller runs one operation at a time.
Tasks == {"t1", "t2"}
MainTasks == {"t1"}
ServerIps == {"1.1.1.1"}
FutIds == 1..MaxFutures
\* The threads that construct an NMClient.
Callers == 1..MaxCallers
\* None, where the other values are the numbers of threads.
Unset == 0

\* NM versions the service may report, as release tuples.
Versions == {<<1, 22, 0>>, <<1, 24, 0>>, <<1, 26, 2>>}

_get_connection_id(permanent, ipv6) ==
    IF ipv6
    THEN (IF permanent THEN "pvpn-killswitch-ipv6-perm" ELSE "pvpn-killswitch-ipv6")
    ELSE (IF permanent THEN "pvpn-killswitch-perm" ELSE "pvpn-killswitch")

_get_interface_name(permanent, ipv6) ==
    IF ipv6
    THEN (IF permanent THEN "ipv6leakintrf1" ELSE "ipv6leakintrf0")
    ELSE (IF permanent THEN "pvpnksintrf1" ELSE "pvpnksintrf0")

PermId == _get_connection_id(TRUE, FALSE)
TempId == _get_connection_id(FALSE, FALSE)
Ipv6Id == _get_connection_id(FALSE, TRUE)
ConnIds == {PermId, TempId, Ipv6Id}

\* Device states in which the profile is among the active connections.
ActiveStates == {"activated", "deactivating"}

\* ------------------------------------------------------------- the profiles
\* KillSwitchIPConfig values of KillSwitchConnectionHandler.__init__; an
\* address "ip/prefix" is written as its two parts.
_ipv4_ks_settings ==
    [addresses |-> << <<"100.85.0.1", "24">> >>, dns |-> <<"0.0.0.0">>,
     gateway |-> "100.85.0.1", routes |-> <<>>]
_ipv6_ks_settings ==
    [addresses |-> << <<"fdeb:446c:912d:08da::", "64">> >>, dns |-> <<"::1">>,
     gateway |-> "fdeb:446c:912d:08da::1", routes |-> <<>>]

\* ipv4_settings=None, as a record.
NoSettings == [none |-> TRUE]

\* KillSwitchConnection._generate_ipv4_settings / _generate_ipv6_settings:
\* "disabled" without settings, otherwise "manual" with every address split
\* at the slash, the DNS servers and the gateway.
_generate_ip_settings(settings) ==
    IF settings = NoSettings
    THEN [method |-> "disabled", addresses |-> <<>>, dns |-> <<>>, gateway |-> None]
    ELSE [method |-> "manual",
          addresses |-> [i \in 1..Len(settings.addresses) |->
                            [ip |-> settings.addresses[i][1],
                             prefix |-> settings.addresses[i][2]]],
          dns |-> settings.dns,
          gateway |-> settings.gateway]

\* KillSwitchConnection(general_config, ipv4_settings, ipv6_settings).connection
_create_connection_profile(id, interface_name, ipv4_settings, ipv6_settings) ==
    [id |-> id, interface_name |-> interface_name, type |-> "dummy",
     ipv4 |-> _generate_ip_settings(ipv4_settings),
     ipv6 |-> _generate_ip_settings(ipv6_settings)]

\* ------------------------------------------------------- python call binding
\* A signature: the parameter names after self, and how many of them (the
\* leading ones) have no default.
Signature(name) ==
    CASE name = "WGKillSwitch.__init__" ->
            [params |-> <<"ks_handler">>, required |-> {}]
      [] name = "add_kill_switch_connection" ->
            [params |-> <<"permanent">>, required |-> {"permanent"}]
      [] name = "add_vpn_server_route" ->
            [params |-> <<"new_server_ip", "old_server_ip">>,
             required |-> {"new_server_ip"}]
      [] name = "remove_vpn_server_route" ->
            [params |-> <<"server_ip">>, required |-> {"server_ip"}]
      [] OTHER ->
            [params |-> <<>>, required |-> {}]

KwNames(kw) == {p[1] : p \in kw}

\* Python accepts a call when no positional argument is left over, every
\* keyword names a parameter not already given by position, and every
\* parameter without a default is given.
Accepts(name, pos, kw) ==
    LET sig == Signature(name)
        byPos == {sig.params[i] : i \in 1..(IF Len(pos) < Len(sig.params)
                                             THEN Len(pos) ELSE Len(sig.params))}
        all == {sig.params[i] : i \in 1..Len(sig.params)}
    IN  /\ Len(pos) <= Len(sig.params)
        /\ KwNames(kw) \subseteq (all \ byPos)
        /\ sig.required \subseteq (byPos \cup KwNames(kw))

Call(name, pos, kw) == [ev |-> "call", name |-> name, pos |-> pos, kw |-> kw, err |-> None]
Return(name) == [ev |-> "return", name |-> name, pos |-> <<>>, kw |-> {}, err |-> None]
Raise(name, err) == [ev |-> "raise", name |-> name, pos |-> <<>>, kw |-> {}, err |-> err]

\* ------------------------------------------------------------ facade calls
\* WGKillSwitch.enable, first call: add_kill_switch_connection(permanent).
EnableBlockAllCall(permanent) ==
    Call("add_kill_switch_connection", <<PyBool(permanent)>>, {})

\* WGKillSwitch.enable, second call: add_vpn_server_route(server_ip=...).
EnableRouteCall(server_ip) ==
    Call("add_vpn_server_route", <<>>, {<<"server_ip", server_ip>>})

\* WGKillSwitch.disable, first call.
DisableBlockAllCall ==
    Call("remove_killswitch_connection", <<>>, {})

\* WGKillSwitch.disable, second call: remove_vpn_server_route() with no argument.
DisableRouteCall ==
    Call("remove_vpn_server_route", <<>>, {})

Ipv6EnableCall == Call("add_ipv6_leak_protection", <<>>, {})
Ipv6DisableCall == Call("remove_ipv6_leak_protection", <<>>, {})


\* ------------------------------------------------------------------ state
VARIABLES
    ks,         \* the facade object: "unbuilt", "ready" or "TypeError"
    ctorKw,     \* keyword arguments given to WGKillSwitch(...)
    pc,         \* per task: where the task is in the facade/handler code
    cont,       \* per task: the label to continue at after the current wait
    hm,         \* per task: the handler method being executed
    hperm,      \* per task: the handler method's permanent argument
    op,         \* per task: the facade operation in progress (or the last one)
    res,        \* per task: outcome of that operation
    repeated,   \* per task: the operation repeats a successful enable(permanent)
    trace,      \* per task: handler calls/returns/raises of the operation
    nmCalls,    \* per task: NMClient methods the handler called in the operation
    awaiting,   \* per task: the future the task holds (0: none)
    syncRes,    \* per task: result of the last Future.result() call
    rmq,        \* per task: connection ids _remove_connection is still to get
    waitBound,  \* per task: the bound of the wait the task is in
    opsDone,    \* facade operations started so far
    faults,     \* errors raised so far by awaited requests to the service
    loopQ,      \* functions enqueued on the GLib main context, in order
    futs,       \* futures created by _create_future
    subs,       \* "state-changed" handlers connected to devices
    stored,     \* service: number of stored profiles per connection id
    dev,        \* service: state of the device of each connection id
    ccEnabled,  \* service: connectivity check flag
    nmVersion,  \* service: reported version
    nmOps,      \* service: asynchronous requests in flight
    routes,     \* the kernel's routing table: the lines "ip route" prints
    pollPc,     \* _wait_for_vpn_server_route: where the call is
    pollArgs,   \* its arguments (server_ip, interface_name, found)
    pollIdx,    \* index of the current delay of its for loop
    pollSlept,  \* time it has slept so far, in milliseconds
    pollSeen,   \* what each routing-table search of the call reported
    _nm_client,     \* NMClient._nm_client: None or the client created
    _main_context,  \* NMClient._main_context: None or the context created
    _lock,          \* NMClient._lock: None or the thread holding it
    ipc,            \* per constructing thread: where NMClient() is
    observed,       \* per constructing thread: the client it came back with
    workers,        \* threads started with target _run_glib_loop
    initFut,        \* per context: the future of _init_nm_client
    host,           \* what the host answers _validate: the NetworkManager
                    \* probe, the apt command, is_ipv6_disabled()
    vpc,            \* WGKillSwitch._validate: where the call is
    validate_params,\* its argument
    vres,           \* what the call returned or raised
    offLoop,        \* NM.Client methods called outside the loop thread
    ran,            \* _run_on_glib_loop_thread: per future, the thread its
                    \* function ran on and how the function ended
    log,            \* per task: what the handler has logged in the operation
    devices,        \* service: per network device, its state and gateways
    ip4routes,      \* per device: the IPv4 routes of its connection's setting
    committed,      \* service: per device, the routes last committed
    applied,        \* service: per device, the routes last re-applied
    rtPc,           \* add/remove_vpn_server_route: where the call is
    rtCall,         \* its method and arguments
    rtDevs,         \* the devices get_physical_devices returned to it
    rtIdx,          \* index of the device its for loop is at
    rtFut,          \* per device: the future of its route request
    rtJob,          \* per device: how far its route request has got
    rtRes,          \* what the call returned or raised
    rtLog,          \* requests made to the service by the call, in order
    held            \* _run_on_glib_loop_thread: per thread, the futures it was
                    \* returned and still holds

ctorVars == <<ks, ctorKw>>
taskVars == <<pc, cont, hm, hperm, op, res, repeated, trace, nmCalls, awaiting,
              syncRes, rmq, waitBound, opsDone, faults>>
bridgeVars == <<loopQ, futs, subs>>
nmVars == <<stored, dev, ccEnabled, nmVersion, nmOps>>
pollVars == <<routes, pollPc, pollArgs, pollIdx, pollSlept, pollSeen>>
initVars == <<_nm_client, _main_context, _lock, ipc, observed, workers, initFut>>
validateVars == <<host, vpc, validate_params, vres>>
confineVars == <<offLoop>>
logVars == <<log>>
routeVars == <<devices, ip4routes, committed, applied, rtPc, rtCall, rtDevs, rtIdx,
               rtFut, rtJob, rtRes, rtLog>>
primitiveVars == <<ran, held>>
vars == <<ctorVars, taskVars, bridgeVars, nmVars, pollVars, initVars, validateVars,
          confineVars, primitiveVars, logVars, routeVars>>

NoOp == [name |-> None, server |-> None, permanent |-> FALSE, active |-> {}]
FreeFut == [state |-> "free", sets |-> 0]
NewFuture == [state |-> "pending", sets |-> 0]

\* packaging.version.Version ordering of release tuples.
VersionLess(a, b) ==
    \/ a[1] < b[1]
    \/ a[1] = b[1] /\ a[2] < b[2]
    \/ a[1] = b[1] /\ a[2] = b[2] /\ a[3] < b[3]

\* The release that introduced the D-Bus property write.
PropertyBusVersion == <<1, 24, 0>>

\* asyncio.wait_for(..., timeout=timeout) of _wrap_future.
WrapFutureBound == "10s"
\* concurrent.futures.Future.result() with no timeout argument.
ResultBound == "unbounded"

\* The facade not built, every task idle, nothing enqueued; the service holds
\* what an earlier session left.
InitKillSwitch(leftover, cc, version) ==
    /\ ks = "unbuilt"
    /\ ctorKw = {}
    /\ pc = [t \in Tasks |-> "idle"]
    /\ cont = [t \in Tasks |-> None]
    /\ hm = [t \in Tasks |-> None]
    /\ hperm = [t \in Tasks |-> FALSE]
    /\ op = [t \in Tasks |-> NoOp]
    /\ res = [t \in Tasks |-> "none"]
    /\ repeated = [t \in Tasks |-> FALSE]
    /\ trace = [t \in Tasks |-> <<>>]
    /\ nmCalls = [t \in Tasks |-> <<>>]
    /\ log = [t \in Tasks |-> <<>>]
    /\ awaiting = [t \in Tasks |-> 0]
    /\ syncRes = [t \in Tasks |-> None]
    /\ rmq = [t \in Tasks |-> <<>>]
    /\ waitBound = [t \in Tasks |-> "idle"]
    /\ opsDone = 0
    /\ faults = {}
    /\ loopQ = <<>>
    /\ futs = [f \in FutIds |-> FreeFut]
    /\ subs = {}
    /\ stored = [c \in ConnIds |-> IF leftover /\ c = PermId THEN 1 ELSE 0]
    /\ dev = [c \in ConnIds |-> IF leftover /\ c = PermId THEN "activated" ELSE "down"]
    /\ ccEnabled = cc
    /\ nmVersion = version
    /\ nmOps = {}

\* No _wait_for_vpn_server_route call yet.
InitPoll(table) ==
    /\ routes = table
    /\ pollPc = "idle"
    /\ pollArgs = None
    /\ pollIdx = 1
    /\ pollSlept = 0
    /\ pollSeen = <<>>

\* The class attributes of NMClient as the class body leaves them.
InitSingleton ==
    /\ _nm_client = Unset
    /\ _main_context = Unset
    /\ _lock = Unset
    /\ ipc = [c \in Callers |-> "idle"]
    /\ observed = [c \in Callers |-> Unset]
    /\ workers = {}
    /\ initFut = [c \in Callers |-> "none"]

\* No call of _validate has been made; the host is one where everything the
\* method asks for is in order.
InitValidate(h) ==
    /\ host = h
    /\ vpc = "idle"
    /\ validate_params = [none |-> TRUE]
    /\ vres = None

\* Threads that call the primitive: the loop thread itself and two others.
LoopThread == "glib-loop"
PrimitiveThreads == {"caller-1", "caller-2", LoopThread}

NotRun == [thread |-> None, outcome |-> None]

\* Text is a sequence of one-character strings.
PollServerIp == <<"1", ".", "1", ".", "1", ".", "1">>
OtherIp == <<"1", "0", ".", "1", ".", "1", "0", "1", ".", "1">>
PollInterface == "eth0"

\* --------------------------------------------------- devices and routes
\* The host's network devices, in the order get_devices() lists them.
RouteDevs == <<"eth0", "wlan0">>
DevNames == {RouteDevs[i] : i \in 1..Len(RouteDevs)}

\* No text: Python's None and "" are both false in "if not gateway" and in
\* "if old_server_ip".
NoText == <<>>

\* device.get_dhcp4_config(): no lease, a lease without the routers option,
\* a lease with it.
NoDhcp == [lease |-> FALSE, has_routers |-> FALSE, routers |-> NoText]
DhcpWithout == [lease |-> TRUE, has_routers |-> FALSE, routers |-> NoText]
Dhcp(routers) == [lease |-> TRUE, has_routers |-> TRUE, routers |-> routers]

StaticGateway == <<"9">>
GatewayConfigs ==
    { [gateway |-> StaticGateway, dhcp |-> NoDhcp],
      [gateway |-> StaticGateway, dhcp |-> Dhcp(<<"7">>)],
      [gateway |-> NoText, dhcp |-> Dhcp(<<"7">>)],
      [gateway |-> NoText, dhcp |-> Dhcp(<<" ", "7", ",", "8">>)],
      [gateway |-> NoText, dhcp |-> Dhcp(<<",", "8">>)],
      [gateway |-> NoText, dhcp |-> DhcpWithout],
      [gateway |-> NoText, dhcp |-> NoDhcp] }

Device(active, g) == [active |-> active, gateway |-> g.gateway, dhcp |-> g.dhcp]
UsualDevice == Device(TRUE, [gateway |-> StaticGateway, dhcp |-> NoDhcp])

\* NM.IPRoute.new(family=AF_INET, dest, prefix, next_hop, metric).
IPRoute(dest, prefix, next_hop) ==
    [dest |-> dest, prefix |-> prefix, next_hop |-> next_hop, metric |-> -1]

\* Route lists a device's connection may hold when a call starts.
InitialRoutes ==
    { <<>>,
      <<IPRoute(PollServerIp, 32, StaticGateway), IPRoute(OtherIp, 32, StaticGateway),
        IPRoute(PollServerIp, 24, StaticGateway), IPRoute(PollServerIp, 32, <<"7">>)>>,
      <<IPRoute(PollServerIp, 32, StaticGateway), IPRoute(PollServerIp, 24, StaticGateway),
        IPRoute(PollServerIp, 32, <<"7">>)>> }

\* str.split(",")[0]: the text before the first comma.
RECURSIVE FirstField(_)
FirstField(text) ==
    IF text = <<>> \/ Head(text) = "," THEN <<>>
    ELSE <<Head(text)>> \o FirstField(Tail(text))

\* str.strip(): leading and trailing blanks removed.
RECURSIVE LStrip(_)
LStrip(text) ==
    IF text # <<>> /\ Head(text) = " " THEN LStrip(Tail(text)) ELSE text

RECURSIVE RStrip(_)
RStrip(text) ==
    IF text # <<>> /\ text[Len(text)] = " "
    THEN RStrip(SubSeq(text, 1, Len(text) - 1)) ELSE text

Strip(text) == RStrip(LStrip(text))

\* Mutant: the static gateway only, no DHCP fallback.
GatewayStaticOnly(device) == device.gateway

\* NMClient._get_ipv4_gateway_from(device): the gateway, or NoText where the
\* method raises RuntimeError("Gateway not found for interface ...").
_get_ipv4_gateway_from(device) ==
    IF device.gateway # NoText THEN device.gateway
    ELSE IF device.dhcp.lease /\ device.dhcp.has_routers
         THEN Strip(FirstField(device.dhcp.routers))
         ELSE NoText

InSeq(x, seq) == \E i \in 1..Len(seq) : seq[i] = x

\* NMClient._add_ipv4_route: config.add_route of a /32 route through the
\* gateway; the setting does not take a route it already holds.
_add_ipv4_route(config, server_ip, gateway) ==
    IF InSeq(IPRoute(server_ip, 32, gateway), config) THEN config
    ELSE Append(config, IPRoute(server_ip, 32, gateway))

\* config.remove_route_by_value(route): the first equal route is removed.
RECURSIVE remove_route_by_value(_, _)
remove_route_by_value(config, route) ==
    IF config = <<>> THEN <<>>
    ELSE IF Head(config) = route THEN Tail(config)
    ELSE <<Head(config)>> \o remove_route_by_value(Tail(config), route)

RECURSIVE RemoveEach(_, _)
RemoveEach(config, routes_to_remove) ==
    IF routes_to_remove = <<>> THEN config
    ELSE RemoveEach(remove_route_by_value(config, Head(routes_to_remove)),
                    Tail(routes_to_remove))

IsRouteTo(route, server_ip) == route.dest = server_ip /\ route.prefix = 32

\* Mutant: only the first route to server_ip/32 is removed.
RemoveIpv4RoutesFirstOnly(config, server_ip) ==
    LET found == SelectSeq(config, LAMBDA route : IsRouteTo(route, server_ip))
    IN  IF found = <<>> THEN config ELSE remove_route_by_value(config, Head(found))

\* NMClient._remove_ipv4_routes: the routes to server_ip/32 are collected,
\* then removed one by one.
_remove_ipv4_routes(config, server_ip) ==
    RemoveEach(config, SelectSeq(config, LAMBDA route : IsRouteTo(route, server_ip)))

\* The line "ip route" prints for a route of a device: the destination alone
\* for a /32 route, with its prefix length otherwise.
RouteLine(d, route) ==
    [dst |-> IF route.prefix = 32 THEN route.dest
             ELSE route.dest \o <<"/", "2", "4">>,
     via |-> TRUE, dev |-> d]

KernelLines(d, config) == {RouteLine(d, config[i]) : i \in 1..Len(config)}

\* server_ip is add_vpn_server_route's new_server_ip and
\* remove_vpn_server_route's server_ip.
NoRouteCall == [method |-> None, server_ip |-> NoText, old_server_ip |-> NoText]

\* No add_vpn_server_route or remove_vpn_server_route call yet; the service
\* holds and has applied what each connection's setting says.
InitRoutes(devs, config) ==
    /\ devices = devs
    /\ ip4routes = config
    /\ committed = config
    /\ applied = config
    /\ rtPc = "idle"
    /\ rtCall = NoRouteCall
    /\ rtDevs = <<>>
    /\ rtIdx = 1
    /\ rtFut = [d \in DevNames |-> FreeFut]
    /\ rtJob = [d \in DevNames |-> "none"]
    /\ rtRes = None
    /\ rtLog = <<>>

UsualRoutes == InitRoutes([d \in DevNames |-> UsualDevice], [d \in DevNames |-> <<>>])

\* No function has been handed to _run_on_glib_loop_thread by a caller of the
\* primitive alone, and nothing has touched the client off the loop thread.
InitPrimitive ==
    /\ offLoop = {}
    /\ ran = [f \in FutIds |-> NotRun]
    /\ held = [thread \in PrimitiveThreads |-> {}]

UsualHost == [nm |-> PyTrue, apt |-> "exit 0", ipv6_disabled |-> FALSE]

\* A permanent kill switch saved to disk by an earlier session may be there.
Init ==
    /\ \E leftover \in BOOLEAN, cc \in BOOLEAN, version \in Versions :
          InitKillSwitch(leftover, cc, version)
    /\ InitPoll({})
    /\ InitSingleton
    /\ InitValidate(UsualHost)
    /\ InitPrimitive
    /\ UsualRoutes

\* ------------------------------------------------------------- futures
\* A future is alive while a task holds it, a request in flight will settle
\* it, a connected signal handler closes over it or an enqueued function does.
LiveNext(f) ==
    \/ \E t \in Tasks : awaiting'[t] = f
    \/ \E o \in nmOps' : o.fut = f
    \/ \E s \in subs' : s.fut = f
    \/ \E i \in 1..Len(loopQ') : loopQ'[i].fut = f

Collect(fs) == [f \in FutIds |-> IF LiveNext(f) THEN fs[f] ELSE FreeFut]

HasFreeFuture == \E f \in FutIds : futs[f].state = "free"
FreshFuture == CHOOSE f \in FutIds :
                  /\ futs[f].state = "free"
                  /\ \A g \in FutIds : futs[g].state = "free" => f <= g

\* Future.set_result / set_exception: the first call settles the future, a
\* call on a settled future raises InvalidStateError and changes nothing.
SetFuture(fs, f, st) ==
    IF fs[f].state = "pending"
    THEN [fs EXCEPT ![f] = [state |-> st, sets |-> 1]]
    ELSE [fs EXCEPT ![f].sets = 2]

\* Mutant: the done-callback leaves the signal handler connected.
UnsubscribeNever(sb, f) == sb

\* The done-callback of add/remove futures disconnects the signal handler.
Unsubscribe(sb, f) == {s \in sb : s.fut # f}


\* ------------------------------------------------------------- logging
\* What a handler method logs when it is entered.
EntryLog(method) ==
    CASE method = "remove_killswitch_connection" -> <<"Removing full kill switch...">>
      [] method = "remove_ipv6_leak_protection" -> <<"Removing IPv6 leak protection...">>
      [] OTHER -> <<>>

\* What an add method logs when the lookup finds its profile active.
PresentLog(method) ==
    IF method = "add_ipv6_leak_protection"
    THEN <<"IPv6 leak protection already present.">>
    ELSE <<"Kill switch was already present.">>

\* What is logged after an awaited future of a client call has resolved.
ResolvedLog(method, permanent, call) ==
    CASE call = "disable_connectivity_check" ->
            <<"Network connectivity check was disabled.">>
      [] call = "add_connection_async" /\ method = "add_ipv6_leak_protection" ->
            <<"IPv6 leak protection added.">>
      [] call = "add_connection_async" /\ method = "add_kill_switch_connection" ->
            <<IF permanent THEN "Permanent kill switch added."
                           ELSE "Non-permanent kill switch added.">>
      [] OTHER -> <<>>

\* _remove_connection logs its attempt, and the absence of the profile.
RemoveLog(found) ==
    IF found THEN <<"Attempting to remove">>
    ELSE <<"Attempting to remove", "There was no connection to remove">>

\* What a method logs after its last _remove_connection returned.
ExitLog(method, permanent) ==
    CASE method = "add_kill_switch_connection" ->
            <<IF permanent THEN "Non-permanent kill switch removed."
                           ELSE "Permanent kill switch removed.">>
      [] method = "remove_killswitch_connection" -> <<"Full kill switch removed.">>
      [] method = "remove_ipv6_leak_protection" -> <<"IP6 leak protection removed.">>
      [] OTHER -> <<>>

Log(t, messages) == log' = [log EXCEPT ![t] = @ \o messages]

\* ------------------------------------------------------------- the facade
\* WGKillSwitch.__init__(self, ks_handler=None).
Construct(kw) ==
    /\ ks = "unbuilt"
    /\ ctorKw' = kw
    /\ ks' = IF Accepts("WGKillSwitch.__init__", <<>>, kw) THEN "ready" ELSE "TypeError"
    /\ UNCHANGED <<routeVars, logVars, primitiveVars, confineVars, validateVars, pollVars, initVars, taskVars, bridgeVars, nmVars>>

\* Where a handler method's body starts.
EntryLabel(name) ==
    CASE name \in {"add_kill_switch_connection", "add_ipv6_leak_protection",
                   "add_vpn_server_route"} -> "ecc_read"
      [] name \in {"remove_killswitch_connection", "remove_ipv6_leak_protection"} -> "rm_lookup"
      [] OTHER -> "rvr_devices"

\* Mutant: the temporary id is removed before the permanent one.
RemovalOrderTemporaryFirst(name) ==
    CASE name = "remove_killswitch_connection" ->
            <<_get_connection_id(FALSE, FALSE), _get_connection_id(TRUE, FALSE)>>
      [] name = "remove_ipv6_leak_protection" ->
            <<_get_connection_id(FALSE, TRUE)>>
      [] OTHER -> <<>>

\* remove_killswitch_connection (no custom config) and remove_ipv6_leak_protection:
\* the ids handed to _remove_connection, in order.
RemovalOrder(name) ==
    CASE name = "remove_killswitch_connection" ->
            <<_get_connection_id(TRUE, FALSE), _get_connection_id(FALSE, FALSE)>>
      [] name = "remove_ipv6_leak_protection" ->
            <<_get_connection_id(FALSE, TRUE)>>
      [] OTHER -> <<>>

\* An awaited handler call made by the facade: the call is bound against the
\* method's signature; a call Python rejects raises TypeError in the facade,
\* which ends the operation.
Invoke(t, before, call) ==
    /\ trace' = [trace EXCEPT ![t] =
                    IF Accepts(call.name, call.pos, call.kw)
                    THEN Append(before, call)
                    ELSE Append(Append(before, call), Raise(call.name, "TypeError"))]
    /\ IF Accepts(call.name, call.pos, call.kw)
       THEN /\ pc' = [pc EXCEPT ![t] = EntryLabel(call.name)]
            /\ hm' = [hm EXCEPT ![t] = call.name]
            /\ hperm' = [hperm EXCEPT ![t] = (Len(call.pos) > 0 /\ call.pos[1] = PyTrue)]
            /\ rmq' = [rmq EXCEPT ![t] = RemovalOrder(call.name)]
            /\ res' = [res EXCEPT ![t] = "running"]
       ELSE /\ pc' = [pc EXCEPT ![t] = "idle"]
            /\ hm' = [hm EXCEPT ![t] = None]
            /\ res' = [res EXCEPT ![t] = "TypeError"]
            /\ UNCHANGED <<hperm, rmq>>

FirstCall(name, server, permanent) ==
    CASE name = "enable" -> EnableBlockAllCall(permanent)
      [] name = "disable" -> DisableBlockAllCall
      [] name = "enable_ipv6_leak_protection" -> Ipv6EnableCall
      [] OTHER -> Ipv6DisableCall

\* A caller starts enable / disable / enable_ipv6_leak_protection /
\* disable_ipv6_leak_protection on the constructed facade.
StartOp(t, name, server, permanent) ==
    /\ ks = "ready"
    /\ pc[t] = "idle"
    /\ opsDone < MaxOps
    /\ opsDone' = opsDone + 1
    /\ repeated' = [repeated EXCEPT ![t] =
                        /\ name = "enable" /\ op[t].name = "enable"
                        /\ op[t].permanent = permanent /\ res[t] = "ok"]
    /\ op' = [op EXCEPT ![t] = [name |-> name, server |-> server, permanent |-> permanent,
                                 active |-> {c \in ConnIds : dev[c] \in ActiveStates}]]
    /\ nmCalls' = [nmCalls EXCEPT ![t] = <<>>]
    /\ Invoke(t, <<>>, FirstCall(name, server, permanent))
    /\ UNCHANGED <<routeVars, primitiveVars, confineVars, validateVars, pollVars, initVars, ctorVars, cont, awaiting, syncRes, waitBound, faults, bridgeVars, nmVars>>
    /\ log' = [log EXCEPT ![t] =
                  IF Accepts(FirstCall(name, server, permanent).name,
                             FirstCall(name, server, permanent).pos,
                             FirstCall(name, server, permanent).kw)
                  THEN EntryLog(FirstCall(name, server, permanent).name)
                  ELSE <<>>]

Enable(t) ==
    \E server \in ServerIps \cup {None}, permanent \in BOOLEAN :
        StartOp(t, "enable", server, permanent)

Disable(t) == StartOp(t, "disable", None, FALSE)

EnableIpv6LeakProtection(t) ==
    \E permanent \in BOOLEAN : StartOp(t, "enable_ipv6_leak_protection", None, permanent)

DisableIpv6LeakProtection(t) == StartOp(t, "disable_ipv6_leak_protection", None, FALSE)

\* The operation ends: the facade returns to its caller.
Finish(t, outcome) ==
    /\ pc' = [pc EXCEPT ![t] = "idle"]
    /\ hm' = [hm EXCEPT ![t] = None]
    /\ res' = [res EXCEPT ![t] = outcome]

\* WGKillSwitch.enable after the awaited add_kill_switch_connection returned:
\* done when no server was given, add_vpn_server_route otherwise.
EnableAfterBlockAll(t) ==
    /\ pc[t] = "h_return"
    /\ op[t].name = "enable"
    /\ hm[t] = "add_kill_switch_connection"
    /\ IF op[t].server = None
       THEN /\ trace' = [trace EXCEPT ![t] = Append(@, Return(hm[t]))]
            /\ Finish(t, "ok")
            /\ UNCHANGED <<hperm, rmq>>
       ELSE Invoke(t, Append(trace[t], Return(hm[t])), EnableRouteCall(op[t].server))
    /\ UNCHANGED <<routeVars, logVars, primitiveVars, confineVars, validateVars, pollVars, initVars, ctorVars, cont, op, repeated, nmCalls, awaiting, syncRes, waitBound,
                   opsDone, faults, bridgeVars, nmVars>>

\* WGKillSwitch.disable after the awaited remove_killswitch_connection returned.
DisableAfterBlockAll(t) ==
    /\ pc[t] = "h_return"
    /\ op[t].name = "disable"
    /\ hm[t] = "remove_killswitch_connection"
    /\ Invoke(t, Append(trace[t], Return(hm[t])), DisableRouteCall)
    /\ UNCHANGED <<routeVars, logVars, primitiveVars, confineVars, validateVars, pollVars, initVars, ctorVars, cont, op, repeated, nmCalls, awaiting, syncRes, waitBound,
                   opsDone, faults, bridgeVars, nmVars>>

\* The last awaited handler call of an operation returned.
ReturnFromLast(t) ==
    /\ pc[t] = "h_return"
    /\ \/ op[t].name \in {"enable_ipv6_leak_protection", "disable_ipv6_leak_protection"}
       \/ hm[t] \in {"add_vpn_server_route", "remove_vpn_server_route"}
    /\ trace' = [trace EXCEPT ![t] = Append(@, Return(hm[t]))]
    /\ Finish(t, "ok")
    /\ UNCHANGED <<routeVars, logVars, primitiveVars, confineVars, validateVars, pollVars, initVars, ctorVars, cont, hperm, op, repeated, nmCalls, awaiting, syncRes, rmq,
                   waitBound, opsDone, faults, bridgeVars, nmVars>>

\* Mutant: the facade swallows the handler's exception and carries on.
HandlerRaisesSwallowed(t, err) ==
    /\ trace' = [trace EXCEPT ![t] = Append(@, Raise(hm[t], err))]
    /\ pc' = [pc EXCEPT ![t] = "h_return"]
    /\ UNCHANGED <<hm, res>>

\* Mutant: the handler method catches the failure of its wait and returns.
HandlerRaisesCaught(t, err) ==
    /\ trace' = [trace EXCEPT ![t] = Append(@, Return(hm[t]))]
    /\ Finish(t, "ok")

\* An exception leaves the handler method; the facade catches nothing.
HandlerRaises(t, err) ==
    /\ trace' = [trace EXCEPT ![t] = Append(@, Raise(hm[t], err))]
    /\ Finish(t, err)


\* ------------------------------------------------------------- the bridge
\* NMClient._run_on_glib_loop_thread(fn).result(): the function is enqueued on
\* the main context and the calling thread blocks in Future.result(), which
\* is given no timeout, until the loop thread has run it.
SyncCall(t, fn, conn, save, f, k) ==
    /\ loopQ' = Append(loopQ, [fn |-> fn, conn |-> conn, save |-> save,
                               fut |-> f, task |-> t])
    /\ pc' = [pc EXCEPT ![t] = "sync_wait"]
    /\ cont' = [cont EXCEPT ![t] = k]
    /\ syncRes' = [syncRes EXCEPT ![t] = "pending"]
    /\ waitBound' = [waitBound EXCEPT ![t] = ResultBound]

SyncReady(t, k) ==
    /\ pc[t] = "sync_wait"
    /\ cont[t] = k
    /\ syncRes[t] # "pending"

\* await _wrap_future(future): asyncio.wait_for with the default timeout.
StartAwait(t, k) ==
    /\ pc' = [pc EXCEPT ![t] = "await"]
    /\ cont' = [cont EXCEPT ![t] = k]
    /\ waitBound' = [waitBound EXCEPT ![t] = WrapFutureBound]

NoteCall(t, what) == nmCalls' = [nmCalls EXCEPT ![t] = Append(@, what)]

\* --------------------------------------------------- the handler's methods
\* Where a method goes on after _ensure_connectivity_check_is_disabled.
AfterEcc(name) ==
    CASE name = "add_kill_switch_connection" -> "aks_lookup"
      [] name = "add_ipv6_leak_protection" -> "aks_lookup"
      [] OTHER -> "avr_devices"

\* The profile an add method is about: id and save_to_disk.
TargetId(name, permanent) ==
    IF name = "add_ipv6_leak_protection"
    THEN _get_connection_id(FALSE, TRUE)
    ELSE _get_connection_id(permanent, FALSE)

\* Mutant: every profile is saved to disk.
SaveToDiskAlways(name, permanent) == TRUE

SaveToDisk(name, permanent) ==
    IF name = "add_ipv6_leak_protection" THEN FALSE ELSE permanent

\* Mutant: every profile is built without IPv4 settings.
KillSwitchProfileNoIpv4(name, permanent) ==
    _create_connection_profile(_get_connection_id(permanent, FALSE),
                               _get_interface_name(permanent, FALSE),
                               NoSettings, _ipv6_ks_settings)

\* The profile an add method builds: add_ipv6_leak_protection passes no IPv4
\* settings and the non-permanent IPv6 names.
KillSwitchProfile(name, permanent) ==
    IF name = "add_ipv6_leak_protection"
    THEN _create_connection_profile(_get_connection_id(FALSE, TRUE),
                                    _get_interface_name(FALSE, TRUE),
                                    NoSettings, _ipv6_ks_settings)
    ELSE _create_connection_profile(_get_connection_id(permanent, FALSE),
                                    _get_interface_name(permanent, FALSE),
                                    _ipv4_ks_settings, _ipv6_ks_settings)

\* Mutant: the other permanence variant is left in place.
FollowUpRemovalsNone(name, permanent) == <<>>

\* What add_kill_switch_connection removes once the new profile is active;
\* add_ipv6_leak_protection removes nothing.
FollowUpRemovals(name, permanent) ==
    IF name = "add_kill_switch_connection"
    THEN <<_get_connection_id(~permanent, FALSE)>>
    ELSE <<>>

\* _ensure_connectivity_check_is_disabled: read is_connectivity_check_enabled.
EccRead(t) ==
    /\ pc[t] = "ecc_read"
    /\ NoteCall(t, [m |-> "connectivity_check_get_enabled", conn |-> None, save |-> FALSE])
    /\ SyncCall(t, "connectivity_check_get_enabled", None, FALSE, 0, "ecc_test")
    /\ UNCHANGED <<routeVars, logVars, primitiveVars, confineVars, validateVars, pollVars, initVars, ctorVars, hm, hperm, op, res, repeated, trace, awaiting, rmq, opsDone, faults,
                   futs, subs, nmVars>>

\* Mutant: the setter whatever the version.
UsesLegacySetterAlways(version) == TRUE

\* Mutant: the comparison is the wrong way round.
UsesLegacySetterReversed(version) == ~VersionLess(version, PropertyBusVersion)

\* NMClient.disable_connectivity_check chooses its path by the version.
UsesLegacySetter(version) == VersionLess(version, PropertyBusVersion)

\* NM.Client methods an NMClient method calls in its own body, on the thread
\* of its caller, rather than inside a function it gives to
\* _run_on_glib_loop_thread: disable_connectivity_check reads get_version()
\* and get_physical_devices reads get_devices(); every other method used here
\* wraps all its calls.
DirectCalls(method) ==
    CASE method = "disable_connectivity_check" -> {"get_version"}
      [] method = "get_physical_devices" -> {"get_devices"}
      [] OTHER -> {}

\* The flag was read: nothing to do when it is off; otherwise
\* disable_connectivity_check, by the setter enqueued on the loop (its bridge
\* future is awaited) or by _dbus_set_property (submitted with a blocking
\* bridge call, its own future awaited afterwards).
EccTest(t) ==
    /\ SyncReady(t, "ecc_test")
    /\ IF syncRes[t] = PyFalse
       THEN /\ pc' = [pc EXCEPT ![t] = AfterEcc(hm[t])]
            /\ waitBound' = [waitBound EXCEPT ![t] = "idle"]
            /\ UNCHANGED <<cont, awaiting, syncRes, loopQ, futs, nmCalls, offLoop>>
       ELSE /\ HasFreeFuture
            /\ NoteCall(t, [m |-> "disable_connectivity_check", conn |-> None, save |-> FALSE])
            /\ offLoop' = offLoop \cup DirectCalls("disable_connectivity_check")
            /\ awaiting' = [awaiting EXCEPT ![t] = FreshFuture]
            /\ futs' = [futs EXCEPT ![FreshFuture] = NewFuture]
            /\ IF UsesLegacySetter(nmVersion)
               THEN /\ loopQ' = Append(loopQ, [fn |-> "connectivity_check_set_enabled",
                                               conn |-> None, save |-> FALSE,
                                               fut |-> FreshFuture, task |-> None])
                    /\ StartAwait(t, AfterEcc(hm[t]))
                    /\ UNCHANGED syncRes
               ELSE SyncCall(t, "_set_property_async", None, FALSE, FreshFuture,
                             "ecc_submitted")
    /\ UNCHANGED <<routeVars, logVars, primitiveVars, validateVars, pollVars, initVars, ctorVars, hm, hperm, op, res, repeated, trace, rmq, opsDone, faults, subs, nmVars>>

\* _dbus_set_property returned its future; the handler awaits it.
EccSubmitted(t) ==
    /\ SyncReady(t, "ecc_submitted")
    /\ StartAwait(t, AfterEcc(hm[t]))
    /\ UNCHANGED <<routeVars, logVars, primitiveVars, confineVars, validateVars, pollVars, initVars, ctorVars, hm, hperm, op, res, repeated, trace, nmCalls, awaiting, syncRes,
                   rmq, opsDone, faults, bridgeVars, nmVars>>

\* add_kill_switch_connection / add_ipv6_leak_protection: get_active_connection.
AddLookup(t) ==
    /\ pc[t] = "aks_lookup"
    /\ NoteCall(t, [m |-> "get_active_connection",
                    conn |-> TargetId(hm[t], hperm[t]), save |-> FALSE])
    /\ SyncCall(t, "get_active_connection", TargetId(hm[t], hperm[t]), FALSE, 0, "aks_test")
    /\ UNCHANGED <<routeVars, logVars, primitiveVars, confineVars, validateVars, pollVars, initVars, ctorVars, hm, hperm, op, res, repeated, trace, awaiting, rmq, opsDone, faults,
                   futs, subs, nmVars>>

\* Mutant: the early return on an active profile is missing.
AlreadyPresentIgnored(found) == FALSE

\* The lookup's result decides whether a profile is submitted.
AlreadyPresent(found) == found # None

\* "already present": return; otherwise build the profile and call
\* add_connection_async, which submits the request with a blocking bridge call.
AddTest(t) ==
    /\ SyncReady(t, "aks_test")
    /\ IF AlreadyPresent(syncRes[t])
       THEN /\ pc' = [pc EXCEPT ![t] = "h_return"]
            /\ waitBound' = [waitBound EXCEPT ![t] = "idle"]
            /\ UNCHANGED <<cont, awaiting, syncRes, loopQ, futs, nmCalls>>
       ELSE /\ HasFreeFuture
            /\ NoteCall(t, [m |-> "add_connection_async",
                            conn |-> TargetId(hm[t], hperm[t]),
                            save |-> SaveToDisk(hm[t], hperm[t]),
                            profile |-> KillSwitchProfile(hm[t], hperm[t])])
            /\ awaiting' = [awaiting EXCEPT ![t] = FreshFuture]
            /\ futs' = [futs EXCEPT ![FreshFuture] = NewFuture]
            /\ SyncCall(t, "_add_connection_async", TargetId(hm[t], hperm[t]),
                        SaveToDisk(hm[t], hperm[t]), FreshFuture, "aks_submitted")
    /\ UNCHANGED <<routeVars, primitiveVars, confineVars, validateVars, pollVars, initVars, ctorVars, hm, hperm, op, res, repeated, trace, rmq, opsDone, faults, subs, nmVars>>
    /\ Log(t, IF AlreadyPresent(syncRes[t]) THEN PresentLog(hm[t]) ELSE <<>>)

\* Mutant: the handler goes on to the removal without awaiting the future.
AddSubmittedNoWait(t) ==
    /\ SyncReady(t, "aks_submitted")
    /\ pc' = [pc EXCEPT ![t] = "rm_lookup"]
    /\ rmq' = [rmq EXCEPT ![t] = FollowUpRemovals(hm[t], hperm[t])]
    /\ UNCHANGED <<routeVars, logVars, primitiveVars, confineVars, validateVars, pollVars, initVars, ctorVars, cont, waitBound,
                   hm, hperm, op, res, repeated, trace, nmCalls, awaiting, syncRes,
                   opsDone, faults, bridgeVars, nmVars>>

\* add_connection_async returned future_conn_activated; the handler awaits it
\* and then goes on to remove the other permanence variant.
AddSubmitted(t) ==
    /\ SyncReady(t, "aks_submitted")
    /\ StartAwait(t, "rm_lookup")
    /\ rmq' = [rmq EXCEPT ![t] = FollowUpRemovals(hm[t], hperm[t])]
    /\ UNCHANGED <<routeVars, logVars, primitiveVars, confineVars, validateVars, pollVars, initVars, ctorVars, hm, hperm, op, res, repeated, trace, nmCalls, awaiting, syncRes,
                   opsDone, faults, bridgeVars, nmVars>>

\* _remove_connection(connection_id): get_connection; when every id has been
\* dealt with the handler method returns.
RemoveLookup(t) ==
    /\ pc[t] = "rm_lookup"
    /\ IF rmq[t] = <<>>
       THEN /\ pc' = [pc EXCEPT ![t] = "h_return"]
            /\ UNCHANGED <<cont, syncRes, waitBound, loopQ, nmCalls>>
       ELSE /\ NoteCall(t, [m |-> "get_connection", conn |-> Head(rmq[t]), save |-> FALSE])
            /\ SyncCall(t, "get_connection", Head(rmq[t]), FALSE, 0, "rm_test")
    /\ UNCHANGED <<routeVars, primitiveVars, confineVars, validateVars, pollVars, initVars, ctorVars, hm, hperm, op, res, repeated, trace, awaiting, rmq, opsDone, faults,
                   futs, subs, nmVars>>
    /\ Log(t, IF rmq[t] = <<>> THEN ExitLog(hm[t], hperm[t]) ELSE <<>>)

\* No such connection: nothing to remove. Otherwise remove_connection_async.
RemoveTest(t) ==
    /\ SyncReady(t, "rm_test")
    /\ IF syncRes[t] = None
       THEN /\ pc' = [pc EXCEPT ![t] = "rm_lookup"]
            /\ rmq' = [rmq EXCEPT ![t] = Tail(@)]
            /\ waitBound' = [waitBound EXCEPT ![t] = "idle"]
            /\ UNCHANGED <<cont, awaiting, syncRes, loopQ, futs, nmCalls>>
       ELSE /\ HasFreeFuture
            /\ NoteCall(t, [m |-> "remove_connection_async", conn |-> Head(rmq[t]),
                            save |-> FALSE])
            /\ awaiting' = [awaiting EXCEPT ![t] = FreshFuture]
            /\ futs' = [futs EXCEPT ![FreshFuture] = NewFuture]
            /\ SyncCall(t, "_remove_connection_async", Head(rmq[t]), FALSE, FreshFuture,
                        "rm_submitted")
            /\ UNCHANGED rmq
    /\ UNCHANGED <<routeVars, primitiveVars, confineVars, validateVars, pollVars, initVars, ctorVars, hm, hperm, op, res, repeated, trace, opsDone, faults, subs, nmVars>>
    /\ Log(t, RemoveLog(syncRes[t] # None))

\* remove_connection_async returned future_interface_removed; it is awaited.
RemoveSubmitted(t) ==
    /\ SyncReady(t, "rm_submitted")
    /\ StartAwait(t, "rm_lookup")
    /\ rmq' = [rmq EXCEPT ![t] = Tail(@)]
    /\ UNCHANGED <<routeVars, logVars, primitiveVars, confineVars, validateVars, pollVars, initVars, ctorVars, hm, hperm, op, res, repeated, trace, nmCalls, awaiting, syncRes,
                   opsDone, faults, bridgeVars, nmVars>>

\* asyncio.wait_for: the awaited future has a result.
AwaitResult(t) ==
    /\ pc[t] = "await"
    /\ futs[awaiting[t]].state = "result"
    /\ pc' = [pc EXCEPT ![t] = cont[t]]
    /\ awaiting' = [awaiting EXCEPT ![t] = 0]
    /\ waitBound' = [waitBound EXCEPT ![t] = "idle"]
    /\ UNCHANGED <<routeVars, primitiveVars, confineVars, validateVars, pollVars, initVars, ctorVars, cont, hm, hperm, op, res, repeated, trace, nmCalls, syncRes,
                   rmq, opsDone, faults, loopQ, subs, nmVars>>
    /\ Log(t, ResolvedLog(hm[t], hperm[t], nmCalls[t][Len(nmCalls[t])].m))
    /\ futs' = Collect(futs)

\* asyncio.wait_for: the awaited future has an exception, which is raised.
AwaitException(t) ==
    /\ pc[t] = "await"
    /\ futs[awaiting[t]].state = "exception"
    /\ HandlerRaises(t, "RuntimeError")
    /\ faults' = faults \cup {"RuntimeError"}
    /\ awaiting' = [awaiting EXCEPT ![t] = 0]
    /\ waitBound' = [waitBound EXCEPT ![t] = "idle"]
    /\ UNCHANGED <<routeVars, logVars, primitiveVars, confineVars, validateVars, pollVars, initVars, ctorVars, cont, hperm, op, repeated, nmCalls, syncRes, rmq, opsDone,
                   loopQ, subs, nmVars>>
    /\ futs' = Collect(futs)

\* Mutant: the timeout cancels the request and disconnects its handler.
AwaitTimeoutRetracts(t) ==
    /\ pc[t] = "await"
    /\ futs[awaiting[t]].state = "pending"
    /\ HandlerRaises(t, "TimeoutError")
    /\ faults' = faults \cup {"TimeoutError"}
    /\ awaiting' = [awaiting EXCEPT ![t] = 0]
    /\ waitBound' = [waitBound EXCEPT ![t] = "idle"]
    /\ nmOps' = {o \in nmOps : o.fut # awaiting[t]}
    /\ subs' = Unsubscribe(subs, awaiting[t])
    /\ UNCHANGED <<routeVars, logVars, primitiveVars, confineVars, validateVars, pollVars, initVars, ctorVars, cont, hperm, op,
                   repeated, nmCalls, syncRes, rmq, opsDone, loopQ, stored, dev, ccEnabled,
                   nmVersion>>
    /\ futs' = Collect(futs)

\* asyncio.wait_for: the timeout expires first. The concurrent future was made
\* running by _create_future, so it cannot be cancelled and stays pending.
AwaitTimeout(t) ==
    /\ pc[t] = "await"
    /\ futs[awaiting[t]].state = "pending"
    /\ HandlerRaises(t, "TimeoutError")
    /\ faults' = faults \cup {"TimeoutError"}
    /\ awaiting' = [awaiting EXCEPT ![t] = 0]
    /\ waitBound' = [waitBound EXCEPT ![t] = "idle"]
    /\ UNCHANGED <<routeVars, logVars, primitiveVars, confineVars, validateVars, pollVars, initVars, ctorVars, cont, hperm, op, repeated, nmCalls, syncRes, rmq, opsDone,
                   loopQ, subs, nmVars>>
    /\ futs' = Collect(futs)


\* --------------------------------------------------------- the loop thread

\* What a function run by the loop thread returns to Future.result().
LoopResult(e) ==
    CASE e.fn = "connectivity_check_get_enabled" -> PyBool(ccEnabled)
      [] e.fn = "get_active_connection" ->
            IF dev[e.conn] \in ActiveStates THEN "found" ELSE None
      [] e.fn = "get_connection" ->
            IF stored[e.conn] > 0 THEN "found" ELSE None
      [] OTHER -> None

\* Requests the function hands to the service.
LoopRequests(e) ==
    CASE e.fn = "_add_connection_async" ->
            {[kind |-> "add", conn |-> e.conn, save |-> e.save, fut |-> e.fut]}
      [] e.fn = "_remove_connection_async" ->
            {[kind |-> "delete", conn |-> e.conn, save |-> FALSE, fut |-> e.fut]}
      [] e.fn = "_set_property_async" ->
            {[kind |-> "setprop", conn |-> None, save |-> FALSE, fut |-> e.fut]}
      [] OTHER -> {}

\* Signal handlers the function connects: _remove_connection_async connects
\* _on_interface_state_changed before it calls delete_async.
LoopSubscriptions(e) ==
    IF e.fn = "_remove_connection_async"
    THEN {[fut |-> e.fut, conn |-> e.conn, want |-> "DISCONNECTED"]}
    ELSE {}

\* The loop thread runs the wrapper of the oldest enqueued function.
LoopRun ==
    /\ loopQ # <<>>
    /\ LET e == Head(loopQ)
       IN  /\ loopQ' = Tail(loopQ)
           /\ nmOps' = nmOps \cup LoopRequests(e)
           /\ subs' = subs \cup LoopSubscriptions(e)
           /\ ccEnabled' = IF e.fn = "connectivity_check_set_enabled" THEN FALSE
                           ELSE ccEnabled
           /\ syncRes' = IF e.task \in Tasks
                         THEN [syncRes EXCEPT ![e.task] = LoopResult(e)]
                         ELSE syncRes
           /\ UNCHANGED <<routeVars, logVars, primitiveVars, confineVars, validateVars, pollVars, initVars, ctorVars, pc, cont, hm, hperm, op, res, repeated, trace, nmCalls,
                          awaiting, rmq, waitBound, opsDone, faults, stored, dev, nmVersion>>
           /\ futs' = Collect(IF e.task \in Tasks THEN futs
                              ELSE SetFuture(futs, e.fut, "result"))

\* --------------------------------------------------------- the service
\* Handlers of the device's "state-changed" signal that settle their future
\* on this state: both check "not future.done()" first.
Resolved(sb, fs, conn, state) ==
    {s \in sb : s.conn = conn /\ s.want = state /\ fs[s.fut].state = "pending"}

SettleAll(fs, ss) ==
    [f \in FutIds |-> IF \E s \in ss : s.fut = f
                      THEN [state |-> "result", sets |-> 1]
                      ELSE fs[f]]

\* The service creates the profile an add request asked for and the client
\* runs _on_connection_added with the remote connection: the state-changed
\* handler is connected, the done-callback registered, and the handler called
\* once by hand with the device's current state. The device may have reached
\* ACTIVATED before the callback runs (activatedFirst).
OnConnectionAdded(o, activatedFirst) ==
    /\ o \in nmOps /\ o.kind = "add"
    /\ stored[o.conn] < MaxStored
    /\ activatedFirst => dev[o.conn] = "down"
    /\ UNCHANGED <<routeVars, logVars, primitiveVars, confineVars, validateVars, pollVars, initVars, ctorVars, taskVars, loopQ, ccEnabled, nmVersion>>
    /\ stored' = [stored EXCEPT ![o.conn] = @ + 1]
    /\ dev' = [dev EXCEPT ![o.conn] = IF activatedFirst THEN "activated" ELSE @]
    /\ nmOps' = nmOps \ {o}
    /\ LET hit == IF activatedFirst THEN Resolved(subs, futs, o.conn, "ACTIVATED") ELSE {}
           sb == subs \ {s \in subs : \E h \in hit : h.fut = s.fut}
           fs == SettleAll(futs, hit)
       IN  IF dev'[o.conn] = "activated" /\ fs[o.fut].state = "pending"
           THEN /\ subs' = Unsubscribe(sb, o.fut)
                /\ futs' = Collect(SetFuture(fs, o.fut, "result"))
           ELSE /\ subs' = sb \cup {[fut |-> o.fut, conn |-> o.conn, want |-> "ACTIVATED"]}
                /\ futs' = Collect(fs)

\* _on_connection_added without a remote connection: the add failed.
OnConnectionAddFailed(o) ==
    /\ o \in nmOps /\ o.kind = "add"
    /\ UNCHANGED <<routeVars, logVars, primitiveVars, confineVars, validateVars, pollVars, initVars, ctorVars, taskVars, loopQ, stored, dev, ccEnabled, nmVersion>>
    /\ nmOps' = nmOps \ {o}
    /\ subs' = Unsubscribe(subs, o.fut)
    /\ futs' = Collect(SetFuture(futs, o.fut, "exception"))

\* The service activates a stored profile (autoconnect): its device reaches
\* ACTIVATED and the connected handlers are called with that state.
NMActivate(c) ==
    /\ stored[c] > 0 /\ dev[c] = "down"
    /\ UNCHANGED <<routeVars, logVars, primitiveVars, confineVars, validateVars, pollVars, initVars, ctorVars, taskVars, loopQ, stored, ccEnabled, nmVersion, nmOps>>
    /\ dev' = [dev EXCEPT ![c] = "activated"]
    /\ LET hit == Resolved(subs, futs, c, "ACTIVATED")
       IN  /\ subs' = subs \ {s \in subs : \E h \in hit : h.fut = s.fut}
           /\ futs' = Collect(SettleAll(futs, hit))

\* Mutant: _on_connection_removed resolves the future on a successful delete.
OnConnectionRemovedResolves(o, wasActive) ==
    /\ o \in nmOps /\ o.kind = "delete"
    /\ stored[o.conn] > 0
    /\ stored[o.conn] = 1 => wasActive
    /\ UNCHANGED <<routeVars, logVars, primitiveVars, confineVars, validateVars, pollVars, initVars, ctorVars, taskVars, loopQ, ccEnabled, nmVersion>>
    /\ stored' = [stored EXCEPT ![o.conn] = @ - 1]
    /\ dev' = [dev EXCEPT ![o.conn] =
                  IF @ = "activated" /\ wasActive THEN "deactivating" ELSE @]
    /\ nmOps' = nmOps \ {o}
    /\ subs' = Unsubscribe(subs, o.fut)
    /\ futs' = Collect(SetFuture(futs, o.fut, "result"))

\* The service deletes the profile a delete request names and the client runs
\* _on_connection_removed with delete_finish true, which does nothing. The
\* device of an active profile starts going down; with several profiles of
\* the same id stored, the deleted one may or may not be the active one.
OnConnectionRemoved(o, wasActive) ==
    /\ o \in nmOps /\ o.kind = "delete"
    /\ stored[o.conn] > 0
    /\ stored[o.conn] = 1 => wasActive
    /\ UNCHANGED <<routeVars, logVars, primitiveVars, confineVars, validateVars, pollVars, initVars, ctorVars, taskVars, loopQ, subs, ccEnabled, nmVersion>>
    /\ stored' = [stored EXCEPT ![o.conn] = @ - 1]
    /\ dev' = [dev EXCEPT ![o.conn] =
                  IF @ = "activated" /\ wasActive THEN "deactivating" ELSE @]
    /\ nmOps' = nmOps \ {o}
    /\ futs' = Collect(futs)

\* _on_connection_removed on a failed delete: set_exception, without a check
\* that the future is still pending.
OnConnectionRemoveFailed(o) ==
    /\ o \in nmOps /\ o.kind = "delete"
    /\ UNCHANGED <<routeVars, logVars, primitiveVars, confineVars, validateVars, pollVars, initVars, ctorVars, taskVars, loopQ, stored, dev, ccEnabled, nmVersion>>
    /\ nmOps' = nmOps \ {o}
    /\ subs' = Unsubscribe(subs, o.fut)
    /\ futs' = Collect(SetFuture(futs, o.fut, "exception"))

\* The device of a deleted active profile reaches DISCONNECTED; the connected
\* handlers are called with that state.
NMDisconnected(c) ==
    /\ dev[c] = "deactivating"
    /\ UNCHANGED <<routeVars, logVars, primitiveVars, confineVars, validateVars, pollVars, initVars, ctorVars, taskVars, loopQ, stored, ccEnabled, nmVersion, nmOps>>
    /\ dev' = [dev EXCEPT ![c] = "down"]
    /\ LET hit == Resolved(subs, futs, c, "DISCONNECTED")
       IN  /\ subs' = subs \ {s \in subs : \E h \in hit : h.fut = s.fut}
           /\ futs' = Collect(SettleAll(futs, hit))

\* _on_property_set: the property write succeeded or failed.
OnPropertySet(o, ok) ==
    /\ o \in nmOps /\ o.kind = "setprop"
    /\ UNCHANGED <<routeVars, logVars, primitiveVars, confineVars, validateVars, pollVars, initVars, ctorVars, taskVars, loopQ, subs, stored, dev, nmVersion>>
    /\ nmOps' = nmOps \ {o}
    /\ ccEnabled' = IF ok THEN FALSE ELSE ccEnabled
    /\ futs' = Collect(SetFuture(futs, o.fut, IF ok THEN "result" ELSE "exception"))

\* ------------------------------------------------------------ specification
\* The facade's block-all operations, with the handler methods they run.
BlockAllStep(t) ==
    \/ Enable(t)
    \/ Disable(t)
    \/ EnableAfterBlockAll(t)
    \/ DisableAfterBlockAll(t)

\* The facade's IPv6 leak protection operations.
Ipv6Step(t) ==
    \/ EnableIpv6LeakProtection(t)
    \/ DisableIpv6LeakProtection(t)
    \/ ReturnFromLast(t)

HandlerStep(t) ==
    \/ EccRead(t)
    \/ EccTest(t)
    \/ EccSubmitted(t)
    \/ AddLookup(t)
    \/ AddTest(t)
    \/ AddSubmitted(t)
    \/ RemoveLookup(t)
    \/ RemoveTest(t)
    \/ RemoveSubmitted(t)
    \/ AwaitResult(t)
    \/ AwaitException(t)
    \/ AwaitTimeout(t)

ServiceStep ==
    \/ \E o \in nmOps, b \in BOOLEAN : OnConnectionAdded(o, b)
    \/ \E o \in nmOps : OnConnectionAddFailed(o)
    \/ \E c \in ConnIds : NMActivate(c)
    \/ \E o \in nmOps, b \in BOOLEAN : OnConnectionRemoved(o, b)
    \/ \E o \in nmOps : OnConnectionRemoveFailed(o)
    \/ \E c \in ConnIds : NMDisconnected(c)
    \/ \E o \in nmOps, ok \in BOOLEAN : OnPropertySet(o, ok)

CtorArgs == {{}} \cup {{<<"server_ip", ip>>} : ip \in ServerIps}

\* Spec: enable and disable on one facade, over the service.
Next ==
    \/ \E kw \in CtorArgs : Construct(kw)
    \/ \E t \in MainTasks : BlockAllStep(t)
    \/ \E t \in MainTasks : HandlerStep(t)
    \/ LoopRun
    \/ ServiceStep

Spec == Init /\ [][Next]_vars

\* SpecConcurrent: two tasks of one event loop, each calling enable once.
\* The loop runs one task at a time: a task takes a step only while every
\* other task is idle or suspended in the await of a future; a task inside
\* Future.result() blocks the loop's thread.
Suspended(t) == pc[t] \in {"idle", "await"}
HasTurn(t) == \A u \in Tasks \ {t} : Suspended(u)

\* A task that has not called the facade yet calls enable(None, permanent).
ConcurrentEnable(t) ==
    /\ HasTurn(t)
    /\ op[t] = NoOp
    /\ \E permanent \in BOOLEAN : StartOp(t, "enable", None, permanent)

\* The task the loop runs goes on in the facade or in the handler.
ConcurrentReturn(t) == HasTurn(t) /\ EnableAfterBlockAll(t)
ConcurrentStep(t) == HasTurn(t) /\ HandlerStep(t)

NextConcurrent ==
    \/ \E kw \in CtorArgs : Construct(kw)
    \/ \E t \in Tasks : ConcurrentEnable(t)
    \/ \E t \in Tasks : ConcurrentReturn(t)
    \/ \E t \in Tasks : ConcurrentStep(t)
    \/ LoopRun
    \/ ServiceStep

SpecConcurrent == Init /\ [][NextConcurrent]_vars

\* SpecIpv6: the IPv6 leak protection operations on one facade.
NextIpv6 ==
    \/ \E kw \in CtorArgs : Construct(kw)
    \/ \E t \in MainTasks : Ipv6Step(t)
    \/ \E t \in MainTasks : HandlerStep(t)
    \/ LoopRun
    \/ ServiceStep

SpecIpv6 == Init /\ [][NextIpv6]_vars

\* SpecAll: every operation of the facade.
NextAll ==
    \/ \E kw \in CtorArgs : Construct(kw)
    \/ \E t \in MainTasks : BlockAllStep(t)
    \/ \E t \in MainTasks : Ipv6Step(t)
    \/ \E t \in MainTasks : HandlerStep(t)
    \/ LoopRun
    \/ ServiceStep

SpecAll == Init /\ [][NextAll]_vars

\* ------------------------------------------------------ routing-table poll
\* Lines "ip route" may print: "<dst> via <gateway> dev <dev> ..." for a route
\* through a gateway, "<dst> dev <dev> ..." for a directly connected one.
RouteLines ==
    { [dst |-> PollServerIp, via |-> TRUE, dev |-> "eth0"],
      [dst |-> PollServerIp, via |-> TRUE, dev |-> "wlan0"],
      [dst |-> PollServerIp, via |-> FALSE, dev |-> "eth0"],
      [dst |-> OtherIp, via |-> TRUE, dev |-> "eth0"] }

\* Mutant: a sixth iteration after the 2 s delay.
DelaysWithSixth == <<500, 500, 1000, 1000, 2000, 0>>

\* Mutant: a doubling back-off in place of the schedule.
DelaysDoubling == <<500, 1000, 2000, 4000, 8000>>

\* The delays of the for loop, in milliseconds.
Delays == <<500, 500, 1000, 1000, 2000>>

\* The regular expression's characters matched against text from position i:
\* "." matches any character, any other character matches itself.
MatchesAt(pattern, text, i) ==
    \A k \in 1..Len(pattern) : pattern[k] = "." \/ pattern[k] = text[i + k - 1]

\* re.search(f"{server_ip} via .* dev {interface_name} .*", stdout): the
\* pattern is not anchored, so the address may match the end of a longer one.
RouteSearch(server_ip, interface_name, table) ==
    \E l \in table :
        /\ l.via
        /\ l.dev = interface_name
        /\ Len(l.dst) >= Len(server_ip)
        /\ MatchesAt(server_ip, l.dst, Len(l.dst) - Len(server_ip) + 1)

OutsidePoll == <<ctorVars, taskVars, bridgeVars, nmVars, initVars, validateVars,
                 confineVars, primitiveVars, logVars, routeVars>>

\* _wait_for_vpn_server_route(server_ip, interface_name, found) is called.
PollCall(found) ==
    /\ pollPc = "idle"
    /\ pollArgs' = [server_ip |-> PollServerIp, interface_name |-> PollInterface,
                    found |-> found]
    /\ pollPc' = "check"
    /\ UNCHANGED <<routes, pollIdx, pollSlept, pollSeen, OutsidePoll>>

\* One iteration's _run_ip_route_command and test.
PollCheck ==
    /\ pollPc = "check"
    /\ LET hit == RouteSearch(pollArgs.server_ip, pollArgs.interface_name, routes) IN
          /\ pollSeen' = Append(pollSeen, hit)
          /\ pollPc' = IF hit = pollArgs.found THEN "returned" ELSE "sleep"
    /\ UNCHANGED <<routes, pollArgs, pollIdx, pollSlept, OutsidePoll>>

\* One iteration's asyncio.sleep(delay), and the loop's advance.
PollSleep ==
    /\ pollPc = "sleep"
    /\ pollSlept' = pollSlept + Delays[pollIdx]
    /\ pollIdx' = pollIdx + 1
    /\ pollPc' = IF pollIdx < Len(Delays) THEN "check" ELSE "exhausted"
    /\ UNCHANGED <<routes, pollArgs, pollSeen, OutsidePoll>>

\* The raise after the loop.
PollRaise ==
    /\ pollPc = "exhausted"
    /\ pollPc' = "TimeoutError"
    /\ UNCHANGED <<routes, pollArgs, pollIdx, pollSlept, pollSeen, OutsidePoll>>

\* The kernel's routing table changes.
RouteTableChanges(table) ==
    /\ table # routes
    /\ routes' = table
    /\ UNCHANGED <<pollPc, pollArgs, pollIdx, pollSlept, pollSeen, OutsidePoll>>

\* SpecPoll: one call of _wait_for_vpn_server_route over a changing table.
InitSpecPoll ==
    /\ InitKillSwitch(FALSE, FALSE, <<1, 26, 2>>)
    /\ \E table \in SUBSET RouteLines : InitPoll(table)
    /\ InitSingleton
    /\ InitValidate(UsualHost)
    /\ InitPrimitive
    /\ UsualRoutes

NextPoll ==
    \/ \E found \in BOOLEAN : PollCall(found)
    \/ PollCheck
    \/ PollSleep
    \/ PollRaise
    \/ \E table \in SUBSET RouteLines : RouteTableChanges(table)

SpecPoll == InitSpecPoll /\ [][NextPoll]_vars

\* ------------------------------------------------ routes to the VPN server
OutsideRoutes == <<ctorVars, taskVars, bridgeVars, nmVars, initVars, validateVars,
                   confineVars, primitiveVars, logVars>>

\* NMClient.get_physical_devices(): the activated devices, in get_devices()
\* order.
get_physical_devices == SelectSeq(RouteDevs, LAMBDA d : devices[d].active)

RouteReq(ev, d, save) == [ev |-> ev, dev |-> d, save_to_disk |-> save]

\* The device the for loop is at.
RouteDevice == rtDevs[rtIdx]

\* add_vpn_server_route(new_server_ip, old_server_ip), taken from the return
\* of _ensure_connectivity_check_is_disabled, or remove_vpn_server_route(
\* server_ip): the devices are read.
RouteCall(method, server_ip, old_server_ip) ==
    /\ rtPc = "idle"
    /\ rtRes = None
    /\ rtCall' = [method |-> method, server_ip |-> server_ip,
                  old_server_ip |-> old_server_ip]
    /\ rtDevs' = get_physical_devices
    /\ rtIdx' = 1
    /\ rtPc' = "loop"
    /\ UNCHANGED <<devices, ip4routes, committed, applied, rtFut, rtJob, rtRes, rtLog,
                   pollVars, OutsideRoutes>>

\* One iteration's add_route_to_device or remove_route_from_device: the
\* future is created, the function enqueued for the loop thread, and the
\* handler waits for the future.
RouteRequest ==
    /\ rtPc = "loop"
    /\ rtIdx <= Len(rtDevs)
    /\ rtFut' = [rtFut EXCEPT ![RouteDevice] = NewFuture]
    /\ rtJob' = [rtJob EXCEPT ![RouteDevice] = "queued"]
    /\ rtLog' = Append(rtLog, RouteReq(rtCall.method, RouteDevice, FALSE))
    /\ rtPc' = "await"
    /\ UNCHANGED <<devices, ip4routes, committed, applied, rtCall, rtDevs, rtIdx, rtRes,
                   pollVars, OutsideRoutes>>

\* The for loop is over: the method logs and returns.
RouteReturn ==
    /\ rtPc = "loop"
    /\ rtIdx > Len(rtDevs)
    /\ rtPc' = "returned"
    /\ rtRes' = "ok"
    /\ UNCHANGED <<devices, ip4routes, committed, applied, rtCall, rtDevs, rtIdx, rtFut,
                   rtJob, rtLog, pollVars, OutsideRoutes>>

\* _apply_connection_async, or the except clause of the enqueued function:
\* with a connection, commit_changes_async(save_to_disk=False) is requested.
ApplyOrReject(d, config, raised) ==
    /\ ip4routes' = [ip4routes EXCEPT ![d] = config]
    /\ IF raised
       THEN /\ rtFut' = SetFuture(rtFut, d, "GatewayNotFound")
            /\ rtJob' = [rtJob EXCEPT ![d] = "done"]
            /\ UNCHANGED rtLog
       ELSE /\ rtJob' = [rtJob EXCEPT ![d] = "commit"]
            /\ rtLog' = Append(rtLog, RouteReq("commit_changes_async", d, FALSE))
            /\ UNCHANGED rtFut

\* The loop thread runs add_route_to_device's function: the routes to the old
\* address are removed from the setting if one was given, the gateway is
\* looked up, the route added and the connection applied.
RunAddIpv4Route(d) ==
    /\ rtJob[d] = "queued"
    /\ rtCall.method = "add_vpn_server_route"
    /\ LET cleared == IF rtCall.old_server_ip # NoText
                      THEN _remove_ipv4_routes(ip4routes[d], rtCall.old_server_ip)
                      ELSE ip4routes[d]
           gateway == _get_ipv4_gateway_from(devices[d])
       IN  IF gateway = NoText
           THEN ApplyOrReject(d, cleared, TRUE)
           ELSE ApplyOrReject(d, _add_ipv4_route(cleared, rtCall.server_ip, gateway),
                              FALSE)
    /\ UNCHANGED <<devices, committed, applied, rtPc, rtCall, rtDevs, rtIdx, rtRes,
                   pollVars, OutsideRoutes>>

\* The loop thread runs remove_route_from_device's function.
RunRemoveIpv4Routes(d) ==
    /\ rtJob[d] = "queued"
    /\ rtCall.method = "remove_vpn_server_route"
    /\ ApplyOrReject(d, _remove_ipv4_routes(ip4routes[d], rtCall.server_ip), FALSE)
    /\ UNCHANGED <<devices, committed, applied, rtPc, rtCall, rtDevs, rtIdx, rtRes,
                   pollVars, OutsideRoutes>>

\* on_connection_commited: commit_changes_finish returns and reapply_async is
\* requested, or it raises and the future takes the exception.
OnConnectionCommited(d, ok) ==
    /\ rtJob[d] = "commit"
    /\ IF ok
       THEN /\ committed' = [committed EXCEPT ![d] = ip4routes[d]]
            /\ rtJob' = [rtJob EXCEPT ![d] = "reapply"]
            /\ rtLog' = Append(rtLog, RouteReq("reapply_async", d, FALSE))
            /\ UNCHANGED rtFut
       ELSE /\ rtFut' = SetFuture(rtFut, d, "GLibError")
            /\ rtJob' = [rtJob EXCEPT ![d] = "done"]
            /\ UNCHANGED <<committed, rtLog>>
    /\ UNCHANGED <<devices, ip4routes, applied, rtPc, rtCall, rtDevs, rtIdx, rtRes,
                   pollVars, OutsideRoutes>>

\* on_device_reapplied: reapply_finish returns and the future takes None, or
\* it raises and the future takes the exception.
OnDeviceReapplied(d, ok) ==
    /\ rtJob[d] = "reapply"
    /\ rtFut' = SetFuture(rtFut, d, IF ok THEN "result" ELSE "GLibError")
    /\ applied' = [applied EXCEPT ![d] = IF ok THEN committed[d] ELSE @]
    /\ rtJob' = [rtJob EXCEPT ![d] = "done"]
    /\ UNCHANGED <<devices, ip4routes, committed, rtPc, rtCall, rtDevs, rtIdx, rtRes,
                   rtLog, pollVars, OutsideRoutes>>

\* The kernel's routing table takes up what was re-applied to a device.
KernelFollows(d) ==
    /\ routes # {l \in routes : l.dev # d} \cup KernelLines(d, applied[d])
    /\ routes' = {l \in routes : l.dev # d} \cup KernelLines(d, applied[d])
    /\ UNCHANGED <<pollPc, pollArgs, pollIdx, pollSlept, pollSeen, OutsidePoll>>

\* _wrap_future returns: _wait_for_vpn_server_route is called for the device's
\* interface.
RouteAwaitResult ==
    /\ rtPc = "await"
    /\ rtFut[RouteDevice].state = "result"
    /\ rtPc' = "poll"
    /\ pollArgs' = [server_ip |-> rtCall.server_ip, interface_name |-> RouteDevice,
                    found |-> rtCall.method = "add_vpn_server_route"]
    /\ pollPc' = "check"
    /\ pollIdx' = 1
    /\ pollSlept' = 0
    /\ pollSeen' = <<>>
    /\ UNCHANGED <<devices, ip4routes, committed, applied, rtCall, rtDevs, rtIdx, rtFut,
                   rtJob, rtRes, rtLog, routes, OutsideRoutes>>

\* An exception leaves the method, and with it the for loop.
RouteRaises(err) ==
    /\ rtPc' = "raised"
    /\ rtRes' = err
    /\ UNCHANGED <<devices, ip4routes, committed, applied, rtCall, rtDevs, rtIdx, rtFut,
                   rtJob, rtLog, pollVars, OutsideRoutes>>

\* _wrap_future raises the exception the future took.
RouteAwaitException ==
    /\ rtPc = "await"
    /\ rtFut[RouteDevice].state \in {"GatewayNotFound", "GLibError"}
    /\ RouteRaises(rtFut[RouteDevice].state)

\* asyncio.wait_for: the timeout expires with the future still pending.
RouteAwaitTimeout ==
    /\ rtPc = "await"
    /\ rtFut[RouteDevice].state = "pending"
    /\ RouteRaises("TimeoutError")

\* _wait_for_vpn_server_route returned: the for loop goes to the next device.
RoutePollReturned ==
    /\ rtPc = "poll"
    /\ pollPc = "returned"
    /\ rtIdx' = rtIdx + 1
    /\ rtPc' = "loop"
    /\ pollPc' = "idle"
    /\ UNCHANGED <<devices, ip4routes, committed, applied, rtCall, rtDevs, rtFut, rtJob,
                   rtRes, rtLog, routes, pollArgs, pollIdx, pollSlept, pollSeen,
                   OutsideRoutes>>

\* _wait_for_vpn_server_route raised TimeoutError.
RoutePollTimeout ==
    /\ rtPc = "poll"
    /\ pollPc = "TimeoutError"
    /\ RouteRaises("TimeoutError")

\* SpecRoutes: one call of add_vpn_server_route or remove_vpn_server_route
\* over the host's devices.
InitSpecRoutes ==
    /\ InitKillSwitch(FALSE, FALSE, <<1, 26, 2>>)
    /\ InitSingleton
    /\ InitValidate(UsualHost)
    /\ InitPrimitive
    /\ \E eth \in GatewayConfigs, up \in BOOLEAN, config \in InitialRoutes :
           /\ InitRoutes([d \in DevNames |->
                             IF d = "eth0" THEN Device(TRUE, eth)
                             ELSE [UsualDevice EXCEPT !.active = up]],
                         [d \in DevNames |-> config])
           /\ InitPoll(UNION {KernelLines(d, config) : d \in DevNames})

NextRoutes ==
    \/ \E old \in {NoText, OtherIp} :
           RouteCall("add_vpn_server_route", PollServerIp, old)
    \/ RouteCall("remove_vpn_server_route", PollServerIp, NoText)
    \/ RouteRequest
    \/ RouteReturn
    \/ \E d \in DevNames :
           \/ RunAddIpv4Route(d)
           \/ RunRemoveIpv4Routes(d)
           \/ \E ok \in BOOLEAN : OnConnectionCommited(d, ok)
           \/ \E ok \in BOOLEAN : OnDeviceReapplied(d, ok)
           \/ KernelFollows(d)
    \/ RouteAwaitResult
    \/ RouteAwaitException
    \/ RouteAwaitTimeout
    \/ PollCheck
    \/ PollSleep
    \/ PollRaise
    \/ RoutePollReturned
    \/ RoutePollTimeout

SpecRoutes == InitSpecRoutes /\ [][NextRoutes]_vars

\* ------------------------------------------------- singleton initialisation
\* A context and the client created on it are named after the thread that
\* created them.
OutsideInit == <<ctorVars, taskVars, bridgeVars, nmVars, pollVars, validateVars,
                 confineVars, primitiveVars, logVars, routeVars>>

\* NMClient.__init__ calls initialize_nm_client_singleton.
NewNMClient(c) ==
    /\ ipc[c] = "idle"
    /\ ipc' = [ipc EXCEPT ![c] = "check"]
    /\ UNCHANGED <<_nm_client, _main_context, _lock, observed, workers, initFut, OutsideInit>>

\* "if cls._nm_client: return", read without the lock.
FirstCheck(c) ==
    /\ ipc[c] = "check"
    /\ IF _nm_client # Unset
          THEN /\ ipc' = [ipc EXCEPT ![c] = "done"]
               /\ observed' = [observed EXCEPT ![c] = _nm_client]
          ELSE /\ ipc' = [ipc EXCEPT ![c] = "acquire"]
               /\ UNCHANGED observed
    /\ UNCHANGED <<_nm_client, _main_context, _lock, workers, initFut, OutsideInit>>

\* "with cls._lock:" entered.
AcquireLock(c) ==
    /\ ipc[c] = "acquire"
    /\ _lock = Unset
    /\ _lock' = c
    /\ ipc' = [ipc EXCEPT ![c] = "locked"]
    /\ UNCHANGED <<_nm_client, _main_context, observed, workers, initFut, OutsideInit>>

\* "if not cls._nm_client:", read under the lock.
SecondCheck(c) ==
    /\ ipc[c] = "locked"
    /\ ipc' = [ipc EXCEPT ![c] = IF _nm_client # Unset THEN "release" ELSE "init"]
    /\ UNCHANGED <<_nm_client, _main_context, _lock, observed, workers, initFut, OutsideInit>>

\* _initialize_nm_client_singleton: a new MainContext and a started thread.
StartGlibThread(c) ==
    /\ ipc[c] = "init"
    /\ _main_context' = c
    /\ workers' = workers \cup {[by |-> c, ctx |-> Unset]}
    /\ ipc' = [ipc EXCEPT ![c] = "invoke"]
    /\ UNCHANGED <<_nm_client, _lock, observed, initFut, OutsideInit>>

\* _run_on_glib_loop_thread(_init_nm_client): the wrapper is attached to the
\* context and the caller goes on to Future.result().
InvokeInit(c) ==
    /\ ipc[c] = "invoke"
    /\ initFut' = [initFut EXCEPT ![_main_context] = "queued"]
    /\ ipc' = [ipc EXCEPT ![c] = "result"]
    /\ UNCHANGED <<_nm_client, _main_context, _lock, observed, workers, OutsideInit>>

\* _run_glib_loop in the started thread: it reads cls._main_context and runs
\* a main loop on it.
RunGlibLoop(w) ==
    /\ w.ctx = Unset
    /\ _main_context # Unset
    /\ workers' = (workers \ {w}) \cup {[w EXCEPT !.ctx = _main_context]}
    /\ UNCHANGED <<_nm_client, _main_context, _lock, ipc, observed, initFut, OutsideInit>>

\* The loop runs the wrapper: NM.Client.new returns a client or raises, and
\* the wrapper sets the future's result or exception.
InitNMClient(w, created) ==
    /\ w.ctx # Unset
    /\ initFut[w.ctx] = "queued"
    /\ initFut' = [initFut EXCEPT ![w.ctx] = IF created THEN "result" ELSE "exception"]
    /\ UNCHANGED <<_nm_client, _main_context, _lock, ipc, observed, workers, OutsideInit>>

\* Future.result() returns the client, which is assigned to cls._nm_client.
ResultReturns(c) ==
    /\ ipc[c] = "result"
    /\ initFut[_main_context] = "result"
    /\ _nm_client' = _main_context
    /\ ipc' = [ipc EXCEPT ![c] = "release"]
    /\ UNCHANGED <<_main_context, _lock, observed, workers, initFut, OutsideInit>>

\* Future.result() raises what NM.Client.new raised; the with block releases
\* the lock and NMClient() raises.
ResultRaises(c) ==
    /\ ipc[c] = "result"
    /\ initFut[_main_context] = "exception"
    /\ _lock' = Unset
    /\ ipc' = [ipc EXCEPT ![c] = "raised"]
    /\ UNCHANGED <<_nm_client, _main_context, observed, workers, initFut, OutsideInit>>

\* The with block is left and NMClient() returns.
ReleaseLock(c) ==
    /\ ipc[c] = "release"
    /\ _lock' = Unset
    /\ ipc' = [ipc EXCEPT ![c] = "done"]
    /\ observed' = [observed EXCEPT ![c] = _nm_client]
    /\ UNCHANGED <<_nm_client, _main_context, workers, initFut, OutsideInit>>

\* SpecInit: threads constructing NMClient for the first time.
InitSpecInit ==
    /\ InitKillSwitch(FALSE, FALSE, <<1, 26, 2>>)
    /\ InitPoll({})
    /\ InitSingleton
    /\ InitValidate(UsualHost)
    /\ InitPrimitive
    /\ UsualRoutes

NextInit ==
    \/ \E c \in Callers : NewNMClient(c)
    \/ \E c \in Callers : FirstCheck(c)
    \/ \E c \in Callers : AcquireLock(c)
    \/ \E c \in Callers : SecondCheck(c)
    \/ \E c \in Callers : StartGlibThread(c)
    \/ \E c \in Callers : InvokeInit(c)
    \/ \E w \in workers : RunGlibLoop(w)
    \/ \E w \in workers, created \in BOOLEAN : InitNMClient(w, created)
    \/ \E c \in Callers : ResultReturns(c)
    \/ \E c \in Callers : ResultRaises(c)
    \/ \E c \in Callers : ReleaseLock(c)

SpecInit == InitSpecInit /\ [][NextInit]_vars

\* ------------------------------------------------- WGKillSwitch._validate
\* SpecValidate: _validate called on a host. The host decides three things
\* the method asks for: what evaluating
\* KillSwitchConnectionHandler().is_network_manager_running does (NMClient()
\* creates the client on first use, get_nm_running reports the daemon), how
\* subprocess.run of /usr/bin/apt ends, and what is_ipv6_disabled() returns.
Hosts ==
    [nm : {PyTrue, PyFalse, "ImportError", "ModuleNotFoundError", "GLib.Error"},
     apt : {"exit 0", "CalledProcessError", "FileNotFoundError"},
     ipv6_disabled : BOOLEAN]

EmptyDict == [k \in {} |-> None]

\* Arguments of _validate: nothing (the default None), or a dict.
ValidateInputs ==
    {[none |-> TRUE], [dict |-> EmptyDict],
     [dict |-> [protocol |-> "wireguard"]],
     [dict |-> [protocol |-> "openvpn"]],
     [dict |-> [backend |-> "linuxnetworkmanager"]]}

\* Python's truth value of the argument: None and the empty dict are false.
Truthy(p) == "dict" \in DOMAIN p /\ DOMAIN p.dict # {}

\* dict.get(key)
DictGet(d, key) == IF key \in DOMAIN d THEN d[key] ELSE None

OutsideValidate == <<ctorVars, taskVars, bridgeVars, nmVars, pollVars, initVars,
                     confineVars, primitiveVars, logVars, routeVars>>

\* _validate(validate_params): the protocol test.
ValidateCall(p) ==
    /\ vpc \in {"idle", "done"}
    /\ validate_params' = p
    /\ IF ~Truthy(p) \/ DictGet(p.dict, "protocol") # "wireguard"
       THEN vpc' = "done" /\ vres' = PyFalse
       ELSE vpc' = "nm" /\ vres' = None
    /\ UNCHANGED <<host, OutsideValidate>>

\* The NetworkManager probe: only ModuleNotFoundError and ImportError are
\* caught; the value of is_network_manager_running is not used.
ValidateNetworkManager ==
    /\ vpc = "nm"
    /\ CASE host.nm \in {"ModuleNotFoundError", "ImportError"} ->
                vpc' = "done" /\ vres' = PyFalse
         [] host.nm = "GLib.Error" ->
                vpc' = "done" /\ vres' = "GLib.Error"
         [] OTHER ->
                vpc' = "apt" /\ vres' = vres
    /\ UNCHANGED <<host, validate_params, OutsideValidate>>

\* subprocess.run(["/usr/bin/apt", "show", "libnetplan1"], check=True): only
\* CalledProcessError is caught.
ValidateApt ==
    /\ vpc = "apt"
    /\ CASE host.apt = "CalledProcessError" ->
                vpc' = "done" /\ vres' = PyTrue
         [] host.apt = "FileNotFoundError" ->
                vpc' = "done" /\ vres' = "FileNotFoundError"
         [] OTHER ->
                vpc' = "ipv6" /\ vres' = vres
    /\ UNCHANGED <<host, validate_params, OutsideValidate>>

\* libnetplan1 is installed: the answer of is_ipv6_disabled() decides.
ValidateIpv6 ==
    /\ vpc = "ipv6"
    /\ vpc' = "done"
    /\ vres' = PyBool(~host.ipv6_disabled)
    /\ UNCHANGED <<host, validate_params, OutsideValidate>>

InitSpecValidate ==
    /\ InitKillSwitch(FALSE, FALSE, <<1, 26, 2>>)
    /\ InitPoll({})
    /\ InitSingleton
    /\ \E h \in Hosts : InitValidate(h)
    /\ InitPrimitive
    /\ UsualRoutes

NextValidate ==
    \/ \E p \in ValidateInputs : ValidateCall(p)
    \/ ValidateNetworkManager
    \/ ValidateApt
    \/ ValidateIpv6

SpecValidate == InitSpecValidate /\ [][NextValidate]_vars

\* ------------------------------------- NMClient._run_on_glib_loop_thread
\* SpecPrimitive: the primitive alone. Threads hand it functions that return
\* or raise; the loop thread runs main_loop.run() on the main context.
PrimitiveFns == {"returns", "raises"}

\* GLib.MainContext.is_owner(): the thread running the loop owns the context.
is_owner(thread) == thread = LoopThread

\* Mutant: invoke_full calls the function at once whoever the caller is.
InvokesDirectlyAlways(thread) == TRUE

\* invoke_full that always attaches an idle source.
InvokesDirectlyNever(thread) == FALSE

\* GLib.MainContext.invoke_full calls the function directly when the calling
\* thread owns the context and otherwise attaches it as an idle source.
InvokesDirectly(thread) == is_owner(thread)

FnOutcome(fn) == IF fn = "raises" THEN "exception" ELSE "result"

\* wrapper(): the assertion is outside the try, so on a thread that does not
\* own the context it raises and the future is left as it was; otherwise the
\* function runs and the future gets its result or its exception.
WrapperFuture(fs, f, fn, thread) ==
    IF is_owner(thread) THEN SetFuture(fs, f, FnOutcome(fn)) ELSE fs

WrapperRan(rn, f, fn, thread) ==
    IF is_owner(thread)
    THEN [rn EXCEPT ![f] = [thread |-> thread, outcome |-> FnOutcome(fn)]]
    ELSE rn

OutsidePrimitive == <<ctorVars, taskVars, subs, nmVars, pollVars, initVars, validateVars,
                      confineVars, logVars, routeVars>>

\* _run_on_glib_loop_thread(function) called on a thread.
RunOnGlibLoopThread(thread, fn) ==
    /\ HasFreeFuture
    /\ held' = [held EXCEPT ![thread] = @ \cup {FreshFuture}]
    /\ IF InvokesDirectly(thread)
       THEN /\ futs' = WrapperFuture([futs EXCEPT ![FreshFuture] = NewFuture],
                                     FreshFuture, fn, thread)
            /\ ran' = WrapperRan(ran, FreshFuture, fn, thread)
            /\ UNCHANGED loopQ
       ELSE /\ futs' = [futs EXCEPT ![FreshFuture] = NewFuture]
            /\ loopQ' = Append(loopQ, [fn |-> fn, conn |-> None, save |-> FALSE,
                                       fut |-> FreshFuture, task |-> None])
            /\ UNCHANGED ran
    /\ UNCHANGED OutsidePrimitive

\* The loop thread dispatches the oldest idle source.
DispatchWrapper ==
    /\ loopQ # <<>>
    /\ loopQ' = Tail(loopQ)
    /\ futs' = WrapperFuture(futs, Head(loopQ).fut, Head(loopQ).fn, LoopThread)
    /\ ran' = WrapperRan(ran, Head(loopQ).fut, Head(loopQ).fn, LoopThread)
    /\ UNCHANGED <<held, OutsidePrimitive>>

\* A caller is done with a settled future.
DropFuture(thread, f) ==
    /\ f \in held[thread]
    /\ futs[f].state \in {"result", "exception"}
    /\ held' = [held EXCEPT ![thread] = @ \ {f}]
    /\ futs' = [futs EXCEPT ![f] = FreeFut]
    /\ ran' = [ran EXCEPT ![f] = NotRun]
    /\ UNCHANGED <<loopQ, OutsidePrimitive>>

NextPrimitive ==
    \/ \E thread \in PrimitiveThreads, fn \in PrimitiveFns : RunOnGlibLoopThread(thread, fn)
    \/ DispatchWrapper
    \/ \E thread \in PrimitiveThreads, f \in FutIds : DropFuture(thread, f)

\* The loop thread keeps running: an attached idle source is dispatched.
SpecPrimitive == InitSpecInit /\ [][NextPrimitive]_vars /\ WF_vars(DispatchWrapper)


\* ------------------------------------------------- settling on the loop thread
\* Every call of the primitive here is followed by .result(): a thread that
\* holds a pending future of the primitive is inside Future.result() and does
\* nothing else until the future is settled.
InResult(thread) == \E g \in held[thread] : futs[g].state = "pending"

OutsideSettle == <<ctorVars, taskVars, nmVars, pollVars, initVars, validateVars,
                   confineVars, logVars, routeVars>>

\* _on_connection_added / _remove_connection_async on the loop thread: the
\* "state-changed" handler is connected and the done-callback that disconnects
\* it is added to the still pending add/remove future.
ConnectHandler(c, want) ==
    /\ ~InResult(LoopThread)
    /\ subs = {}
    /\ HasFreeFuture
    /\ futs' = [futs EXCEPT ![FreshFuture] = NewFuture]
    /\ subs' = subs \cup {[fut |-> FreshFuture, conn |-> c, want |-> want]}
    /\ UNCHANGED <<loopQ, primitiveVars, OutsideSettle>>

\* A GLib callback on the loop thread settles an add/remove future.  set_result
\* and set_exception run the done-callbacks on the thread that settles, so the
\* lambda calls _run_on_glib_loop_thread(signal_handler_disconnect, ...) on the
\* loop thread and then .result() of the future it is returned.
SettleOnLoopThread(s, state) ==
    /\ ~InResult(LoopThread)
    /\ futs[s.fut].state = "pending"
    /\ HasFreeFuture
    /\ LET g == FreshFuture
           fs == [SetFuture(futs, s.fut, state) EXCEPT ![g] = NewFuture]
       IN /\ held' = [held EXCEPT ![LoopThread] = @ \cup {g}]
          /\ IF InvokesDirectly(LoopThread)
             THEN /\ futs' = WrapperFuture(fs, g, "signal_handler_disconnect", LoopThread)
                  /\ ran' = WrapperRan(ran, g, "signal_handler_disconnect", LoopThread)
                  /\ subs' = Unsubscribe(subs, s.fut)
                  /\ UNCHANGED loopQ
             ELSE /\ futs' = fs
                  /\ loopQ' = Append(loopQ, [fn |-> "signal_handler_disconnect",
                                             conn |-> s.conn, save |-> FALSE,
                                             fut |-> g, task |-> None])
                  /\ UNCHANGED <<ran, subs>>
    /\ UNCHANGED OutsideSettle

\* Another thread calls the primitive and waits in .result().
CallAndWait(thread, fn) ==
    /\ thread # LoopThread
    /\ ~InResult(thread)
    /\ RunOnGlibLoopThread(thread, fn)

\* The loop thread, unless it is inside .result(), dispatches the oldest idle
\* source; a dispatched signal_handler_disconnect disconnects the handler.
SettleDispatch ==
    /\ ~InResult(LoopThread)
    /\ loopQ # <<>>
    /\ loopQ' = Tail(loopQ)
    /\ futs' = WrapperFuture(futs, Head(loopQ).fut, Head(loopQ).fn, LoopThread)
    /\ ran' = WrapperRan(ran, Head(loopQ).fut, Head(loopQ).fn, LoopThread)
    /\ subs' = IF Head(loopQ).fn = "signal_handler_disconnect"
               THEN {s \in subs : s.conn # Head(loopQ).conn}
               ELSE subs
    /\ UNCHANGED <<held, OutsideSettle>>

\* The task that awaited a settled add/remove future is done with it.
ReleaseFuture(f) ==
    /\ futs[f].state \in {"result", "exception"}
    /\ \A thread \in PrimitiveThreads : f \notin held[thread]
    /\ \A s \in subs : s.fut # f
    /\ futs' = [futs EXCEPT ![f] = FreeFut]
    /\ UNCHANGED <<loopQ, subs, primitiveVars, OutsideSettle>>

NextSettle ==
    \/ \E c \in ConnIds, want \in {"ACTIVATED", "DISCONNECTED"} : ConnectHandler(c, want)
    \/ \E s \in subs, state \in {"result", "exception"} : SettleOnLoopThread(s, state)
    \/ \E thread \in PrimitiveThreads, fn \in PrimitiveFns : CallAndWait(thread, fn)
    \/ SettleDispatch
    \/ \E thread \in PrimitiveThreads, f \in FutIds : DropFuture(thread, f)
    \/ \E f \in FutIds : ReleaseFuture(f)

\* The loop thread keeps running unless it is blocked.
SpecSettle == InitSpecInit /\ [][NextSettle]_vars /\ WF_vars(SettleDispatch)


\* ------------------------------------------------------------------ claims
CallsOf(tr) == SelectSeq(tr, LAMBDA e : e.ev = "call")
Has(tr, e) == \E i \in 1..Len(tr) : tr[i] = e
HasRaise(tr, name) == \E i \in 1..Len(tr) : tr[i].ev = "raise" /\ tr[i].name = name
IsRouteCall(e) == e.ev = "call" /\ e.name = "add_vpn_server_route"
Ended(t) == pc[t] = "idle" /\ res[t] \notin {"none", "running"}

\* C1: in enable(server, permanent) the call of add_vpn_server_route comes only
\* after add_kill_switch_connection(permanent) was called and has returned; when
\* add_kill_switch_connection raises, the operation makes no route call.
C1_RouteOnlyAfterBlockAll ==
    \A t \in Tasks :
        op[t].name = "enable" =>
            /\ \A j \in 1..Len(trace[t]) :
                  IsRouteCall(trace[t][j]) =>
                      /\ j = 3
                      /\ trace[t][1] = EnableBlockAllCall(op[t].permanent)
                      /\ trace[t][2] = Return("add_kill_switch_connection")
            /\ HasRaise(trace[t], "add_kill_switch_connection") =>
                  \A j \in 1..Len(trace[t]) : ~IsRouteCall(trace[t][j])

\* C1 witness: an enable with a server whose block-all call returned and whose
\* route call was made.
C1_Witness ==
    \E t \in Tasks :
        /\ op[t].name = "enable" /\ op[t].server # None
        /\ Len(trace[t]) >= 3
        /\ trace[t][2] = Return("add_kill_switch_connection")
        /\ IsRouteCall(trace[t][3])

\* C2 (as claimed): once add_kill_switch_connection has returned, an ended
\* enable(vpn_server) has issued add_kill_switch_connection(False) and then
\* add_vpn_server_route(new_server_ip=vpn_server.server_ip, old_server_ip=None),
\* both accepted by the handler's signatures; enable() has issued
\* add_kill_switch_connection(False) only.
C2_EnableIssuesTestedCalls ==
    \A t \in Tasks :
        ( /\ op[t].name = "enable" /\ ~op[t].permanent
          /\ Ended(t)
          /\ Has(trace[t], Return("add_kill_switch_connection")) ) =>
            /\ CallsOf(trace[t]) =
                  IF op[t].server = None
                  THEN <<Call("add_kill_switch_connection", <<PyFalse>>, {})>>
                  ELSE <<Call("add_kill_switch_connection", <<PyFalse>>, {}),
                         Call("add_vpn_server_route", <<>>,
                              {<<"new_server_ip", op[t].server>>,
                               <<"old_server_ip", None>>})>>
            /\ \A i \in 1..Len(trace[t]) :
                  trace[t][i].ev = "call" =>
                      Accepts(trace[t][i].name, trace[t][i].pos, trace[t][i].kw)

\* C3 (as claimed): a kill switch can be constructed with a server IP, and an
\* ended disable() whose remove_killswitch_connection returned has issued
\* exactly remove_killswitch_connection() and then
\* remove_vpn_server_route(<that server IP>).
C3_DisableIssuesTestedCalls ==
    /\ ctorKw # {} => ks # "TypeError"
    /\ \A t \in Tasks :
          ( /\ op[t].name = "disable"
            /\ Ended(t)
            /\ Has(trace[t], Return("remove_killswitch_connection")) ) =>
              \E p \in ctorKw :
                  /\ p[1] = "server_ip"
                  /\ CallsOf(trace[t]) =
                        <<Call("remove_killswitch_connection", <<>>, {}),
                          Call("remove_vpn_server_route", <<p[2]>>, {})>>

\* C4 (as claimed): disable() on the real handler ends without error whenever
\* no request to the service failed or timed out, in particular when neither
\* block-all profile exists.
C4_DisableEndsWithoutError ==
    \A t \in Tasks :
        ( /\ op[t].name = "disable"
          /\ Ended(t)
          /\ res[t] \notin {"TimeoutError", "RuntimeError"} ) =>
            res[t] = "ok"


Submits(t, method) == \E i \in 1..Len(nmCalls[t]) : nmCalls[t][i].m = method
PermanentId(t) == _get_connection_id(op[t].permanent, FALSE)
OppositeId(t) == _get_connection_id(~op[t].permanent, FALSE)

LookupsOnly(t) ==
    \A i \in 1..Len(nmCalls[t]) :
        nmCalls[t][i].m \in {"connectivity_check_get_enabled",
                             "disable_connectivity_check", "get_active_connection"}

BlockAllReturns(t) ==
    /\ hm[t] = "add_kill_switch_connection"
    /\ pc[t] # "h_return"
    /\ pc'[t] = "h_return"

\* C6 (as claimed): when add_kill_switch_connection(P) returns, with no request
\* ever timed out, none in flight in the service and no device going down, P's
\* profile is active and no profile of the opposite permanence is stored or
\* active.
C6_ExclusiveAfterEnable ==
    [][\A t \in Tasks :
          ( /\ BlockAllReturns(t)
            /\ "TimeoutError" \notin faults'
            /\ nmOps' = {}
            /\ \A c \in ConnIds : dev'[c] # "deactivating" ) =>
              /\ dev'[_get_connection_id(hperm[t], FALSE)] = "activated"
              /\ stored'[_get_connection_id(~hperm[t], FALSE)] = 0
              /\ dev'[_get_connection_id(~hperm[t], FALSE)] = "down"]_vars

BothStored == stored[PermId] > 0 /\ stored[TempId] > 0

InAddWindow(t) ==
    /\ hm[t] = "add_kill_switch_connection"
    /\ Submits(t, "add_connection_async")
    /\ pc[t] # "h_return"

ClaimedSchedule == <<500, 500, 1000, 1000, 2000>>

RECURSIVE SumFirst(_, _)
SumFirst(sched, n) == IF n = 0 THEN 0 ELSE sched[n] + SumFirst(sched, n - 1)

FirstDesiredAt(n) ==
    /\ n \in 1..Len(ClaimedSchedule)
    /\ Len(pollSeen) = n
    /\ pollSeen[n] = pollArgs.found
    /\ \A i \in 1..(n - 1) : pollSeen[i] # pollArgs.found

\* C8: a poll whose Nth routing-table check (1 <= N <= 5) is the first to
\* report the desired state returns at that check, having slept exactly the
\* first N-1 delays of [0.5, 0.5, 1, 1, 2] s; a poll none of whose checks
\* reports it makes five checks and raises TimeoutError after having slept
\* exactly the whole schedule, 5 s.
C8_PollConvergenceBound ==
    /\ (pollPc # "idle" /\ \E i \in 1..Len(pollSeen) : pollSeen[i] = pollArgs.found)
          => pollPc = "returned"
    /\ pollPc = "returned" =>
          \E n \in 1..Len(ClaimedSchedule) :
              FirstDesiredAt(n) /\ pollSlept = SumFirst(ClaimedSchedule, n - 1)
    /\ pollPc = "TimeoutError" =>
          /\ Len(pollSeen) = Len(ClaimedSchedule)
          /\ \A i \in 1..Len(pollSeen) : pollSeen[i] # pollArgs.found
          /\ pollSlept = SumFirst(ClaimedSchedule, Len(ClaimedSchedule))

\* C8 witness: a poll for a route's removal returns at its fifth check.
C8_Witness ==
    /\ pollPc = "returned"
    /\ pollArgs.found = FALSE
    /\ Len(pollSeen) = 5

\* C9 (as claimed): every wait of a caller-side task on the network service
\* has an explicit bound.
C9_EveryWaitBounded ==
    \A t \in Tasks : waitBound[t] # ResultBound

\* C10 (as claimed): threads constructing NMClient for the first time start at
\* most one worker thread.
C10_AtMostOneWorker == Cardinality(workers) <= 1

\* The step in which a task calls NMClient.disable_connectivity_check.
CallsDisableConnectivityCheck(t) ==
    /\ Len(nmCalls'[t]) = Len(nmCalls[t]) + 1
    /\ nmCalls'[t][Len(nmCalls'[t])].m = "disable_connectivity_check"

\* v < 1.24.0 for a release tuple v, as the claim states it.
Before_1_24_0(v) == v[1] < 1 \/ (v[1] = 1 /\ v[2] < 24)

\* C11: whenever disable_connectivity_check is called, it enqueues the legacy
\* setter connectivity_check_set_enabled(False) exactly when the reported
\* version is below 1.24.0 and the property-bus write exactly when it is
\* 1.24.0 or above.
C11_VersionGatedDisable ==
    [][\A t \in Tasks :
          CallsDisableConnectivityCheck(t) =>
              /\ Len(loopQ') = Len(loopQ) + 1
              /\ loopQ'[Len(loopQ')].fn =
                    IF Before_1_24_0(nmVersion)
                    THEN "connectivity_check_set_enabled"
                    ELSE "_set_property_async"]_vars

\* C11 witness: at the boundary version 1.24.0 the property-bus write has
\* reached the service.
C11_Witness ==
    /\ nmVersion = <<1, 24, 0>>
    /\ \E o \in nmOps : o.kind = "setprop"

\* The NMClient calls of a task's operation with the given method name.
CallsTo(t, method) == {i \in 1..Len(nmCalls[t]) : nmCalls[t][i].m = method}

\* enable() with no server and permanent=False, started while the temporary
\* profile was not active, has ended successfully.
PlainEnableEnded(t) ==
    /\ op[t].name = "enable" /\ op[t].server = None /\ ~op[t].permanent
    /\ TempId \notin op[t].active
    /\ Ended(t) /\ res[t] = "ok"

\* The block-all profile the claim describes.
ManualBlockAll(profile) ==
    /\ profile.ipv4.method = "manual"
    /\ profile.ipv4.addresses = <<[ip |-> "100.85.0.1", prefix |-> "24"]>>
    /\ profile.ipv4.gateway = "100.85.0.1"

\* C12 (as claimed): such an enable has made exactly one add-connection call,
\* for the manual 100.85.0.1/24 profile, and exactly one remove-connection
\* call, for the permanent id.
C12_OneAddOneRemove ==
    \A t \in Tasks :
        PlainEnableEnded(t) =>
            /\ Cardinality(CallsTo(t, "add_connection_async")) = 1
            /\ \A i \in CallsTo(t, "add_connection_async") :
                  ManualBlockAll(nmCalls[t][i].profile)
            /\ Cardinality(CallsTo(t, "remove_connection_async")) = 1
            /\ \A i \in CallsTo(t, "remove_connection_async") :
                  nmCalls[t][i].conn = PermId

\* The step in which _remove_connection acts on the result of get_connection.
RemoveDecides(t) ==
    /\ pc[t] = "sync_wait" /\ cont[t] = "rm_test"
    /\ pc'[t] # pc[t]

RemoveRequested(t) ==
    /\ Len(nmCalls'[t]) = Len(nmCalls[t]) + 1
    /\ nmCalls'[t][Len(nmCalls'[t])].m = "remove_connection_async"
    /\ nmCalls'[t][Len(nmCalls'[t])].conn = nmCalls[t][Len(nmCalls[t])].conn

\* C12 (amended): as long as no awaited request has timed out, such an enable
\* has made exactly one add-connection call, for the manual 100.85.0.1/24
\* profile with gateway 100.85.0.1, then exactly one get_connection lookup, of
\* the permanent id, and at most one remove-connection call, for the permanent
\* id; the remove-connection call is made exactly when the lookup found a
\* stored profile.
C12_OneAddAtMostOneRemove ==
    /\ [](\A t \in Tasks :
            (PlainEnableEnded(t) /\ "TimeoutError" \notin faults) =>
                /\ Cardinality(CallsTo(t, "add_connection_async")) = 1
                /\ \A i \in CallsTo(t, "add_connection_async") :
                      ManualBlockAll(nmCalls[t][i].profile)
                /\ Cardinality(CallsTo(t, "get_connection")) = 1
                /\ Cardinality(CallsTo(t, "remove_connection_async")) <= 1
                /\ \A i \in CallsTo(t, "get_connection") \cup
                            CallsTo(t, "remove_connection_async") :
                      /\ nmCalls[t][i].conn = PermId
                      /\ \A j \in CallsTo(t, "add_connection_async") : j < i)
    /\ [][\A t \in Tasks :
            RemoveDecides(t) => (RemoveRequested(t) <=> syncRes[t] # None)]_vars

\* C12 witness: such an enable has ended after removing a permanent profile.
C12_Witness ==
    \E t \in Tasks :
        /\ PlainEnableEnded(t) /\ "TimeoutError" \notin faults
        /\ CallsTo(t, "remove_connection_async") # {}

\* The step in which an add method acts on the result of get_active_connection.
AddDecides(t) ==
    /\ pc[t] = "sync_wait" /\ cont[t] = "aks_test"
    /\ pc'[t] # pc[t]

Ipv6OnlyUnsaved(call) ==
    /\ call.conn = Ipv6Id
    /\ call.save = FALSE
    /\ call.profile.id = Ipv6Id
    /\ call.profile.ipv4.method = "disabled"
    /\ call.profile.ipv4.addresses = <<>>
    /\ call.profile.ipv6.method = "manual"

\* C13: enable_ipv6_leak_protection, whatever its permanent argument, makes at
\* most one add-connection call, for the IPv6-only profile with the
\* non-permanent id and save_to_disk false, and makes none (nothing is handed
\* to the loop either) when its lookup finds that id active.
C13_Ipv6NeverPersisted ==
    /\ [](\A t \in Tasks : op[t].name = "enable_ipv6_leak_protection" =>
            /\ Cardinality(CallsTo(t, "add_connection_async")) <= 1
            /\ \A i \in CallsTo(t, "add_connection_async") : Ipv6OnlyUnsaved(nmCalls[t][i])
            /\ \A i \in 1..Len(loopQ) : loopQ[i].save = FALSE)
    /\ [][\A t \in Tasks :
            (AddDecides(t) /\ syncRes[t] # None) =>
                /\ nmCalls'[t] = nmCalls[t]
                /\ loopQ' = loopQ
                /\ pc'[t] = "h_return"]_vars

\* C13 witness: a call with permanent=True has submitted the profile and ended.
C13_Witness ==
    \E t \in Tasks :
        /\ op[t].name = "enable_ipv6_leak_protection" /\ op[t].permanent
        /\ Ended(t) /\ res[t] = "ok"
        /\ CallsTo(t, "add_connection_async") # {}
        /\ dev[Ipv6Id] \in ActiveStates

\* The lookup of enable_ipv6_leak_protection found the profile active and the
\* call ended without an add-connection call.
C13_WitnessAlreadyActive ==
    \E t \in Tasks :
        /\ op[t].name = "enable_ipv6_leak_protection"
        /\ Ipv6Id \in op[t].active
        /\ Ended(t) /\ res[t] = "ok"
        /\ CallsTo(t, "add_connection_async") = {}

ValidateReturned == vpc = "done"

WantsWireguard ==
    Truthy(validate_params) /\ DictGet(validate_params.dict, "protocol") = "wireguard"

\* C14 (as claimed): _validate always returns a boolean; it returns False when
\* the protocol asked for is not wireguard, when the NetworkManager daemon is
\* not running, and when libnetplan1 is installed while IPv6 is disabled; it
\* returns True when apt or libnetplan1 is unavailable and the rest passes.
C14_ValidateTotal ==
    ValidateReturned =>
        /\ vres \in {PyTrue, PyFalse}
        /\ ~WantsWireguard => vres = PyFalse
        /\ host.nm # PyTrue => vres = PyFalse
        /\ (host.apt = "exit 0" /\ host.ipv6_disabled) => vres = PyFalse
        /\ (WantsWireguard /\ host.nm = PyTrue /\ host.apt # "exit 0") => vres = PyTrue

\* The ids of the get_connection lookups a task made, in order.
LookedUp(t) ==
    LET lookups == SelectSeq(nmCalls[t], LAMBDA c : c.m = "get_connection")
    IN  [i \in 1..Len(lookups) |-> lookups[i].conn]

IsPrefix(a, b) == Len(a) <= Len(b) /\ \A i \in 1..Len(a) : a[i] = b[i]

InRemoveKillSwitch(t) == hm[t] = "remove_killswitch_connection"

\* C15: remove_killswitch_connection looks up the permanent id and then the
\* temporary id; a remove request is only issued for the id just looked up,
\* and when the lookup finds nothing stored the method goes on to the next id
\* with no request issued, nothing enqueued and nothing raised; the method
\* raises only after a remove request was issued.
C15_RemoveBothAbsenceIsNoError ==
    /\ [](\A t \in Tasks : op[t].name = "disable" =>
            /\ IsPrefix(LookedUp(t), <<PermId, TempId>>)
            /\ \A i \in CallsTo(t, "remove_connection_async") :
                  /\ i > 1
                  /\ nmCalls[t][i - 1].m = "get_connection"
                  /\ nmCalls[t][i - 1].conn = nmCalls[t][i].conn
            /\ HasRaise(trace[t], "remove_killswitch_connection") =>
                  CallsTo(t, "remove_connection_async") # {}
            /\ Has(trace[t], Return("remove_killswitch_connection")) =>
                  LookedUp(t) = <<PermId, TempId>>)
    /\ [][\A t \in Tasks :
            (InRemoveKillSwitch(t) /\ RemoveDecides(t) /\ syncRes[t] = None) =>
                /\ nmCalls'[t] = nmCalls[t]
                /\ loopQ' = loopQ
                /\ trace'[t] = trace[t]
                /\ pc'[t] = "rm_lookup"
                /\ rmq'[t] = Tail(rmq[t])]_vars

RemoveKillSwitchReturned(t, n) ==
    /\ op[t].name = "disable"
    /\ Has(trace[t], Return("remove_killswitch_connection"))
    /\ Cardinality(CallsTo(t, "remove_connection_async")) = n

\* C15 witness: the method returned after removing one profile and finding
\* the other absent.
C15_Witness == \E t \in Tasks : RemoveKillSwitchReturned(t, 1)

\* It returned with neither profile stored, and with both removed.
C15_WitnessNeither == \E t \in Tasks : RemoveKillSwitchReturned(t, 0)
C15_WitnessBoth == \E t \in Tasks : RemoveKillSwitchReturned(t, 2)

\* C18 (as claimed): no method of the client object is ever called from the
\* caller's thread; every call is made by a function run by the loop thread.
C18_ThreadConfinement == offLoop = {}

Settled(f) == futs[f].state \in {"result", "exception"}

\* C16: a function given to _run_on_glib_loop_thread runs on the loop thread
\* only; its future is settled once, with the result when the function
\* returned and with the exception when it raised; and, the loop thread
\* dispatching what is attached to its context, every future the primitive
\* returned is eventually settled.
C16_PrimitiveSettlesOnLoopThread ==
    /\ [](\A f \in FutIds :
            /\ ran[f] # NotRun => ran[f].thread = LoopThread
            /\ Settled(f) <=> ran[f] # NotRun
            /\ Settled(f) => futs[f].state = ran[f].outcome /\ futs[f].sets = 1)
    /\ \A thread \in PrimitiveThreads, f \in FutIds :
          (f \in held[thread]) ~> Settled(f)

\* C16 witness: a function handed over by another thread raised on the loop
\* thread and its future holds the exception.
C16_Witness ==
    \E thread \in PrimitiveThreads \ {LoopThread}, f \in FutIds :
        /\ f \in held[thread]
        /\ futs[f].state = "exception"
        /\ ran[f] = [thread |-> LoopThread, outcome |-> "exception"]
        /\ loopQ # <<>>

\* The device state a "state-changed" handler is waiting for, as the model's
\* device states name it.
Desired(want) == IF want = "ACTIVATED" THEN "activated" ELSE "down"

\* The device of a connection id enters a state in this step.
Enters(c, state) == dev[c] # state /\ dev'[c] = state

\* C17: a connected handler always belongs to a pending future (whichever way
\* a future is settled, its handler is disconnected in the same step); a
\* handler waiting for ACTIVATED is never connected to a device that is
\* already activated when add_connection_async's callback has run; and when
\* the device enters the state a handler waits for, the handler's future is
\* settled and the handler disconnected in that step.
C17_HandlersOnlyOfPendingFutures ==
    /\ [](\A s \in subs :
            /\ futs[s.fut].state = "pending"
            /\ s.want = "ACTIVATED" => dev[s.conn] # "activated")
    /\ [][\A s \in subs :
            Enters(s.conn, Desired(s.want)) =>
                /\ s \notin subs'
                /\ futs'[s.fut].state # "pending"
                /\ \A t \in Tasks : awaiting[t] = s.fut => futs'[s.fut].state = "result"]_vars

\* C17 witness: the future of a remove_connection_async call the task is
\* still awaiting was resolved by the DISCONNECTED notification and its
\* handler is gone.
C17_Witness ==
    \E t \in Tasks :
        /\ pc[t] = "await"
        /\ nmCalls[t] # <<>>
        /\ nmCalls[t][Len(nmCalls[t])].m = "remove_connection_async"
        /\ futs[awaiting[t]].state = "result"
        /\ \A s \in subs : s.fut # awaiting[t]

\* The same for add_connection_async and ACTIVATED.
C17_WitnessAdd ==
    \E t \in Tasks :
        /\ pc[t] = "await"
        /\ nmCalls[t] # <<>>
        /\ nmCalls[t][Len(nmCalls[t])].m = "add_connection_async"
        /\ futs[awaiting[t]].state = "result"
        /\ \A s \in subs : s.fut # awaiting[t]

\* The wait of task t on a future ends with the timeout in this step.
TimesOut(t) ==
    /\ pc[t] = "await"
    /\ pc'[t] = "idle"
    /\ res'[t] = "TimeoutError"

\* Something the service or the loop still holds refers to the future.
Referenced(f) ==
    \/ \E o \in nmOps : o.fut = f
    \/ \E s \in subs : s.fut = f
    \/ \E i \in 1..Len(loopQ) : loopQ[i].fut = f

\* A future no task is waiting for is settled in this step.
LateSettle ==
    \E f \in FutIds :
        /\ futs[f].state = "pending" /\ futs'[f].state # "pending"
        /\ \A t \in Tasks : awaiting[t] # f

\* C19: when a wait times out the caller gets TimeoutError (the handler method
\* raises it) and nothing submitted is taken back: the requests in flight,
\* the enqueued functions, the connected handlers and the service's profiles
\* stay as they are, and the future, still referenced by them, stays pending;
\* when such a future is settled later, no task is affected.
C19_TimeoutAbandonsWithoutRetracting ==
    /\ [][\A t \in Tasks : TimesOut(t) =>
            /\ futs[awaiting[t]].state = "pending"
            /\ trace'[t] = Append(trace[t], Raise(hm[t], "TimeoutError"))
            /\ UNCHANGED <<nmOps, subs, loopQ, stored, dev>>
            /\ Referenced(awaiting[t]) => futs'[awaiting[t]] = futs[awaiting[t]]]_vars
    /\ [][LateSettle => UNCHANGED <<pc, cont, hm, op, res, trace, nmCalls, awaiting, faults>>]_vars

\* C19 witness: an enable ended with TimeoutError on its add request, and the
\* abandoned request has completed since: the profile is stored and active.
C19_Witness ==
    \E t \in Tasks :
        /\ Ended(t) /\ res[t] = "TimeoutError"
        /\ nmCalls[t] # <<>>
        /\ LET last == nmCalls[t][Len(nmCalls[t])]
           IN  /\ last.m = "add_connection_async"
               /\ stored[last.conn] = 1
               /\ dev[last.conn] = "activated"
        /\ nmOps = {} /\ subs = {}
        /\ \A f \in FutIds : futs[f].state = "free"

AddMethods == {"add_kill_switch_connection", "add_ipv6_leak_protection"}
ConnectivityStep == {"connectivity_check_get_enabled", "disable_connectivity_check"}
RemovalCalls == {"get_connection", "remove_connection_async"}

\* Task t leaves the wait on the future of its last call in this step.
LeavesAwait(t) == pc[t] = "await" /\ pc'[t] # "await"

LastCall(t) == nmCalls[t][Len(nmCalls[t])].m

\* C20: in add_kill_switch_connection and add_ipv6_leak_protection the first
\* client call reads the connectivity-check flag, and the lookup and the
\* submission of the profile start only when the flag was off or the future
\* of disable_connectivity_check has resolved; the lookup and removal of the
\* other permanence variant come after the add-connection call, and start
\* only when the future of that call has resolved: a method that leaves
\* either wait otherwise ends with the error and makes no further call.
C20_HandlerOrdering ==
    /\ [](\A t \in Tasks : hm[t] \in AddMethods =>
            /\ nmCalls[t] # <<>> => nmCalls[t][1].m = "connectivity_check_get_enabled"
            /\ \A i \in 1..Len(nmCalls[t]) :
                  /\ nmCalls[t][i].m \in ConnectivityStep => i <= 2
                  /\ nmCalls[t][i].m = "add_connection_async" =>
                        \A j \in 1..(i - 1) : nmCalls[t][j].m \notin RemovalCalls
                  /\ nmCalls[t][i].m \in RemovalCalls =>
                        \E j \in 1..(i - 1) : nmCalls[t][j].m = "add_connection_async"
            /\ pc[t] \in {"aks_lookup", "rm_lookup"} => awaiting[t] = 0)
    /\ [][\A t \in Tasks : (hm[t] \in AddMethods /\ LeavesAwait(t)) =>
            IF futs[awaiting[t]].state = "result"
            THEN /\ LastCall(t) = "disable_connectivity_check" => pc'[t] = "aks_lookup"
                 /\ LastCall(t) = "add_connection_async" => pc'[t] = "rm_lookup"
            ELSE /\ pc'[t] = "idle"
                 /\ res'[t] \in {"TimeoutError", "RuntimeError"}
                 /\ nmCalls'[t] = nmCalls[t]
                 /\ loopQ' = loopQ]_vars

\* C20 witness: add_kill_switch_connection disabled the connectivity check,
\* added the profile and has issued the removal of the other variant.
C20_Witness ==
    \E t \in Tasks :
        /\ hm[t] = "add_kill_switch_connection"
        /\ Len(nmCalls[t]) = 6
        /\ [i \in 1..6 |-> nmCalls[t][i].m] =
              <<"connectivity_check_get_enabled", "disable_connectivity_check",
                "get_active_connection", "add_connection_async",
                "get_connection", "remove_connection_async">>

\* add_ipv6_leak_protection disabled the connectivity check and added its
\* profile.
C20_WitnessIpv6 ==
    \E t \in Tasks :
        /\ hm[t] = "add_ipv6_leak_protection"
        /\ Len(nmCalls[t]) = 4
        /\ nmCalls[t][2].m = "disable_connectivity_check"
        /\ nmCalls[t][4].m = "add_connection_async"

\* The wait of add_kill_switch_connection on the future of a client call ends
\* in this step because the future holds an exception or the timeout expired.
WaitFails(t, call) ==
    /\ hm[t] = "add_kill_switch_connection"
    /\ LeavesAwait(t)
    /\ LastCall(t) = call
    /\ futs[awaiting[t]].state # "result"

Surfaced(t) ==
    /\ res'[t] \in {"RuntimeError", "TimeoutError"}
    /\ trace'[t] = Append(trace[t], Raise(hm[t], res'[t]))
    /\ pc'[t] = "idle"

NewProfileKept(t) ==
    /\ stored'[TargetId(hm[t], hperm[t])] > 0
    /\ dev'[TargetId(hm[t], hperm[t])] = "activated"

\* C21 (as claimed): when the removal of the other variant fails, the handler
\* logs the failure and the new profile stays stored and active; when the add
\* fails, the caller gets the error.
C21_AddingWinsFailureLogged ==
    [][\A t \in Tasks :
          /\ WaitFails(t, "remove_connection_async") =>
                /\ Len(log'[t]) > Len(log[t])
                /\ NewProfileKept(t)
          /\ WaitFails(t, "add_connection_async") => Surfaced(t)]_vars

\* C21 (amended): when the removal of the other variant fails, the error is
\* raised to the caller like a failure of the add, nothing is logged about it,
\* and nothing is taken back: the method never asks for the removal of the
\* profile it added, and, unless an earlier wait timed out and left a request
\* behind, the new profile is stored and active when the call ends.
C21_AddingWinsFailureRaised ==
    /\ [][\A t \in Tasks :
            /\ WaitFails(t, "remove_connection_async") =>
                  /\ Surfaced(t)
                  /\ log'[t] = log[t]
                  /\ "TimeoutError" \notin faults => NewProfileKept(t)
                  /\ UNCHANGED <<nmOps, loopQ, stored, dev>>
            /\ WaitFails(t, "add_connection_async") => Surfaced(t)]_vars
    /\ [](\A t \in Tasks : hm[t] = "add_kill_switch_connection" =>
            \A i \in CallsTo(t, "remove_connection_async") :
                nmCalls[t][i].conn # TargetId(hm[t], hperm[t]))

\* C21 witness: enable ended with the error of the failed removal, after the
\* new profile was added, and the new profile is stored and active.
C21_Witness ==
    \E t \in Tasks :
        /\ op[t].name = "enable" /\ Ended(t)
        /\ res[t] \in {"RuntimeError", "TimeoutError"}
        /\ nmCalls[t] # <<>> /\ LastCall(t) = "remove_connection_async"
        /\ stored[PermanentId(t)] > 0
        /\ dev[PermanentId(t)] = "activated"

\* The entry before the first comma of a routers option, blanks aside.
FirstEntry(text) ==
    LET commas == {i \in 1..Len(text) : text[i] = ","}
        upto == IF commas = {} THEN Len(text)
                ELSE (CHOOSE i \in commas : \A j \in commas : i <= j) - 1
    IN  SelectSeq(SubSeq(text, 1, upto), LAMBDA c : c # " ")

\* The gateway the route of a device goes through, as claimed.
ClaimedGateway(d) ==
    IF devices[d].gateway # NoText THEN devices[d].gateway
    ELSE IF devices[d].dhcp.lease /\ devices[d].dhcp.has_routers
         THEN FirstEntry(devices[d].dhcp.routers)
         ELSE NoText

\* The loop thread runs the function add_route_to_device enqueued for d.
RunsAdd(d) ==
    /\ rtCall.method = "add_vpn_server_route"
    /\ rtJob[d] = "queued"
    /\ rtJob'[d] # "queued"

RequestsFor(d, evs) == {i \in 1..Len(rtLog) : rtLog[i].dev = d /\ rtLog[i].ev \in evs}

\* C22: add_route_to_device routes the new server address through the
\* device's static gateway when it has one, else through the first entry of
\* the DHCP lease's routers option, and then asks for the commit; with no
\* gateway from either, the future is rejected with the gateway-not-found
\* error, and no commit or re-apply is ever requested for the device.
C22_GatewayDiscovery ==
    /\ [][\A d \in DevNames : RunsAdd(d) =>
            IF ClaimedGateway(d) # NoText
            THEN /\ InSeq(IPRoute(rtCall.server_ip, 32, ClaimedGateway(d)), ip4routes'[d])
                 /\ \A i \in 1..Len(ip4routes'[d]) :
                        IsRouteTo(ip4routes'[d][i], rtCall.server_ip) =>
                           \/ InSeq(ip4routes'[d][i], ip4routes[d])
                           \/ ip4routes'[d][i].next_hop = ClaimedGateway(d)
                 /\ rtJob'[d] = "commit"
                 /\ rtFut'[d].state = "pending"
            ELSE /\ rtFut'[d].state = "GatewayNotFound"
                 /\ rtJob'[d] = "done"]_vars
    /\ [](\A d \in DevNames :
            rtFut[d].state = "GatewayNotFound" =>
                RequestsFor(d, {"commit_changes_async", "reapply_async"}) = {})

\* The call failed for want of a gateway on the first device.
C22_Witness ==
    /\ rtRes = "GatewayNotFound"
    /\ rtFut["eth0"].state = "GatewayNotFound"
    /\ devices["eth0"].dhcp.has_routers

\* The route went through the first of two gateways of the lease.
C22_WitnessDhcp ==
    /\ devices["eth0"].dhcp.routers = <<" ", "7", ",", "8">>
    /\ devices["eth0"].gateway = NoText
    /\ InSeq(IPRoute(PollServerIp, 32, <<"7">>), applied["eth0"])
    /\ rtRes = "ok"

\* The static gateway was taken although the lease had one.
C22_WitnessStatic ==
    /\ devices["eth0"].dhcp.has_routers
    /\ devices["eth0"].gateway # NoText
    /\ ip4routes["eth0"] = <<IPRoute(PollServerIp, 32, StaticGateway)>>
    /\ rtRes = "ok"

RouteMethods == {"add_vpn_server_route", "remove_vpn_server_route"}
RouteEnded == rtPc \in {"returned", "raised"}

\* C23: when add_vpn_server_route or remove_vpn_server_route ends, the route
\* operation has been attempted on every active physical device, whatever
\* happened on the others, and the call has failed if it failed on any.
C23_PerDeviceIndependence ==
    RouteEnded =>
        /\ \A i \in 1..Len(rtDevs) : RequestsFor(rtDevs[i], RouteMethods) # {}
        /\ rtRes = "ok" => \A d \in DevNames : rtFut[d].state \in {"free", "result"}

\* The loop thread runs the function remove_route_from_device enqueued for d.
RunsRemove(d) ==
    /\ rtCall.method = "remove_vpn_server_route"
    /\ rtJob[d] = "queued"
    /\ rtJob'[d] # "queued"

NotTo(server_ip, config) ==
    SelectSeq(config, LAMBDA route : ~(route.dest = server_ip /\ route.prefix = 32))

\* The requests of the call for device d, in the order they were made.
RequestsOf(d) == SelectSeq(rtLog, LAMBDA r : r.dev = d)

\* The routing table has a route to the address through a gateway on the
\* interface.
ShowsRoute(server_ip, interface_name) ==
    \E l \in routes : l.dst = server_ip /\ l.via /\ l.dev = interface_name

\* C24: remove_route_from_device takes every route to server_ip/32 out of the
\* device's connection and leaves the others as they were, in order, then
\* asks for a commit that is not saved to disk, and for the re-apply once the
\* commit is done; remove_vpn_server_route goes from one device to the next
\* only after a check of the routing table that showed no such route on the
\* device's interface, raises TimeoutError when the checks are exhausted, and
\* when it returns it has done so for every active physical device.
C24_RouteRemoval ==
    /\ [][\A d \in DevNames : RunsRemove(d) =>
            /\ ip4routes'[d] = NotTo(rtCall.server_ip, ip4routes[d])
            /\ rtLog' = Append(rtLog, RouteReq("commit_changes_async", d, FALSE))]_vars
    /\ [][\A d \in DevNames :
            rtCall.method = "remove_vpn_server_route" /\ applied'[d] # applied[d] =>
                /\ applied'[d] = NotTo(rtCall.server_ip, ip4routes[d])
                /\ rtLog[Len(rtLog)] = RouteReq("reapply_async", d, FALSE)]_vars
    /\ [][rtCall.method = "remove_vpn_server_route" /\ pollPc # "returned"
          /\ pollPc' = "returned" =>
              ~ShowsRoute(rtCall.server_ip, RouteDevice)]_vars
    /\ [][rtCall.method = "remove_vpn_server_route" /\ rtIdx' > rtIdx =>
              pollPc = "returned" /\ pollArgs.interface_name = RouteDevice]_vars
    /\ [][rtCall.method = "remove_vpn_server_route" /\ pollPc = "TimeoutError"
          /\ rtPc' # rtPc => rtRes' = "TimeoutError"]_vars
    /\ [](rtCall.method = "remove_vpn_server_route" /\ rtRes = "ok" =>
            /\ rtDevs = SelectSeq(RouteDevs, LAMBDA d : devices[d].active)
            /\ \A i \in 1..Len(rtDevs) :
                  /\ RequestsOf(rtDevs[i]) =
                        <<RouteReq("remove_vpn_server_route", rtDevs[i], FALSE),
                          RouteReq("commit_changes_async", rtDevs[i], FALSE),
                          RouteReq("reapply_async", rtDevs[i], FALSE)>>
                  /\ applied[rtDevs[i]] = NotTo(rtCall.server_ip, applied[rtDevs[i]]))

\* Routes were removed from two devices, the /24 route kept on both.
C24_Witness ==
    /\ rtCall.method = "remove_vpn_server_route"
    /\ rtRes = "ok"
    /\ Len(rtDevs) = 2
    /\ \A d \in DevNames : applied[d] = <<IPRoute(PollServerIp, 24, StaticGateway)>>

\* The functions on the loop thread's queue that disable the connectivity
\* check.
QueuedDisables(fn) == {i \in 1..Len(loopQ) : loopQ[i].fn = fn}

\* The reported version is at or above the threshold, 1.24.0.
AtOrAboveThreshold == nmVersion[1] > 1 \/ (nmVersion[1] = 1 /\ nmVersion[2] >= 24)

\* C25 (as claimed): the direct setter is used at or above the threshold
\* version only, the property-bus write below it only.
C25_NewerUsesSetter ==
    /\ QueuedDisables("connectivity_check_set_enabled") # {} => AtOrAboveThreshold
    /\ QueuedDisables("_set_property_async") # {} => ~AtOrAboveThreshold

\* C25 (amended): the direct setter is used below the threshold version only,
\* the property-bus write at or above it only, and no property-bus write
\* reaches the service from a version below the threshold.
C25_OlderUsesSetter ==
    /\ QueuedDisables("connectivity_check_set_enabled") # {} => ~AtOrAboveThreshold
    /\ QueuedDisables("_set_property_async") # {} => AtOrAboveThreshold
    /\ (\E o \in nmOps : o.kind = "setprop") => AtOrAboveThreshold

\* The setter is on the loop thread's queue of a service older than the
\* threshold.
C25_Witness ==
    /\ nmVersion = <<1, 22, 0>>
    /\ QueuedDisables("connectivity_check_set_enabled") # {}

\* The property-bus write is on the queue at the threshold version.
C25_WitnessThreshold ==
    /\ nmVersion = <<1, 24, 0>>
    /\ QueuedDisables("_set_property_async") # {}

\* C26: no future of the bridge is set twice: set_result and set_exception
\* are called on pending futures only.
C26_SettledAtMostOnce == \A f \in FutIds : futs[f].sets <= 1

\* The task calls NMClient.add_connection_async in this step.
CallsAdd(t) ==
    /\ Len(nmCalls'[t]) = Len(nmCalls[t]) + 1
    /\ LastCall(t)' = "add_connection_async"

\* C28: whenever an add method calls add_connection_async, the service
\* stores no profile with the id of the profile submitted.
C28_NoDuplicateOfStored ==
    [][\A t \in Tasks :
          CallsAdd(t) => stored[nmCalls'[t][Len(nmCalls'[t])].conn] = 0]_vars

\* remove_killswitch_connection returns to its caller in this step.
RemoveKillSwitchReturns(t) ==
    /\ hm[t] = "remove_killswitch_connection"
    /\ pc[t] = "rm_lookup"
    /\ pc'[t] = "h_return"

\* C29: when remove_killswitch_connection returns, the service stores no
\* permanent and no temporary block-all profile.
C29_NoneStoredAfterRemove ==
    [][\A t \in Tasks :
          RemoveKillSwitchReturns(t) => stored'[PermId] = 0 /\ stored'[TempId] = 0]_vars

\* The poll reads the routing table in this step.
PollChecks == Len(pollSeen') > Len(pollSeen)

\* The routing table shows the state the poll waits for.
DesiredNow ==
    RouteSearch(pollArgs.server_ip, pollArgs.interface_name, routes) = pollArgs.found

\* C30: _wait_for_vpn_server_route reads the routing table five times at
\* most, the i-th time after exactly the first i-1 delays of the schedule
\* and before the i-th, and never once the last, 2 s, delay has been slept:
\* from there it can only raise TimeoutError, whatever the table shows.
C30_NoCheckAfterLastDelay ==
    /\ [](Len(pollSeen) <= 5)
    /\ [][PollChecks =>
            /\ Len(pollSeen') = pollIdx
            /\ pollIdx <= Len(ClaimedSchedule)
            /\ pollSlept = SumFirst(ClaimedSchedule, pollIdx - 1)]_vars
    /\ [][pollSlept = SumFirst(ClaimedSchedule, 5) =>
            /\ ~PollChecks
            /\ pollPc' # pollPc => pollPc = "exhausted" /\ pollPc' = "TimeoutError"]_vars

\* The table came to show the desired state during the last delay, and the
\* poll raised TimeoutError all the same.
C30_Witness ==
    /\ pollPc = "TimeoutError"
    /\ DesiredNow
    /\ Len(pollSeen) = 5
    /\ \A i \in 1..5 : pollSeen[i] # pollArgs.found

\* The task has called add_connection_async for the block-all profile of the
\* given permanence and waits for its activation.
AwaitsActivation(t, permanent) ==
    /\ hm[t] = "add_kill_switch_connection"
    /\ hperm[t] = permanent
    /\ pc[t] = "await"
    /\ LastCall(t) = "add_connection_async"

\* C27: two tasks that run add_kill_switch_connection(P) at the same time
\* never both submit the profile: no two tasks wait for the activation of
\* the same block-all profile, and the service never stores two profiles
\* with one id.
C27_OneAddForConcurrentCalls ==
    /\ \A t, u \in Tasks, permanent \in BOOLEAN :
          AwaitsActivation(t, permanent) /\ AwaitsActivation(u, permanent) => t = u
    /\ \A c \in {PermId, TempId} : stored[c] <= 1

\* The signal handlers remove_connection_async has connected for a future.
RemoveSubs(f) == {sb \in subs : sb.fut = f /\ sb.want = "DISCONNECTED"}

\* The future is one remove_connection_async returned: its function is on
\* the loop's queue, its delete request in flight or its handler connected.
RemoveFuture(f) ==
    \/ RemoveSubs(f) # {}
    \/ \E o \in nmOps : o.kind = "delete" /\ o.fut = f
    \/ \E i \in 1..Len(loopQ) :
          loopQ[i].fn = "_remove_connection_async" /\ loopQ[i].fut = f

\* C31: a pending future of remove_connection_async takes its result only in
\* a step in which the device of its profile reaches DISCONNECTED while its
\* handler is connected; connecting the handler does not settle it and neither
\* does a successful delete; and a task that leaves its wait for a future
\* still pending does so with TimeoutError.
C31_RemoveResolvesOnDisconnectedOnly ==
    /\ [][\A f \in FutIds :
            RemoveFuture(f) /\ futs[f].state = "pending" /\ futs'[f].state = "result" =>
                \E sb \in RemoveSubs(f) :
                    dev[sb.conn] = "deactivating" /\ dev'[sb.conn] = "down"]_vars
    /\ [][\A sb \in subs' \ subs :
            sb.want = "DISCONNECTED" => futs'[sb.fut].state = "pending"]_vars
    /\ [][\A o \in nmOps \ nmOps' :
            (o.kind = "delete" /\ stored'[o.conn] < stored[o.conn]
             /\ futs[o.fut].state = "pending") => futs'[o.fut] = futs[o.fut]]_vars
    /\ [][\A t \in Tasks :
            (LeavesAwait(t) /\ LastCall(t) = "remove_connection_async"
             /\ futs[awaiting[t]].state = "pending") => res'[t] = "TimeoutError"]_vars

\* A profile that was stored but not active was deleted, its device never
\* went through DISCONNECTED, and the wait for its removal timed out.
C31_Witness ==
    \E t \in Tasks :
        /\ Ended(t) /\ res[t] = "TimeoutError"
        /\ nmCalls[t] # <<>>
        /\ LastCall(t) = "remove_connection_async"
        /\ LET c == nmCalls[t][Len(nmCalls[t])].conn
           IN  /\ c \notin op[t].active
               /\ stored[c] = 0
               /\ dev[c] = "down"
               /\ \A o \in nmOps : o.conn # c

\* A step in which a pending add/remove future with a connected handler is
\* settled.
Settles(f) ==
    /\ \E s \in subs : s.fut = f
    /\ futs[f].state = "pending"
    /\ futs'[f].state \in {"result", "exception"}

\* C32: settling an add/remove future never blocks the loop thread.  In the
\* settling step the signal disconnect is run on the loop thread itself, with
\* nothing attached to the loop's queue, so the handler is disconnected and the
\* future the done-callback waits for is settled at once; the loop thread is
\* never inside a .result() that has not returned; and every other thread that
\* waits for a function it handed to the loop gets its answer.
C32_SettlingNeverBlocksLoop ==
    /\ [](~InResult(LoopThread))
    /\ [][\A f \in FutIds : Settles(f) =>
            /\ loopQ' = loopQ
            /\ \A s \in subs' : s.fut # f
            /\ \E g \in held'[LoopThread] \ held[LoopThread] :
                  /\ futs'[g].state = "result"
                  /\ ran'[g] = [thread |-> LoopThread, outcome |-> "result"]]_vars
    /\ \A thread \in PrimitiveThreads : InResult(thread) ~> ~InResult(thread)

\* C32 witness: the loop thread settled an add/remove future, holds the result
\* of the disconnect it ran itself, is not waiting, and no handler is left
\* connected.
C32_Witness ==
    /\ \E g \in held[LoopThread] :
          /\ futs[g].state = "result"
          /\ ran[g] = [thread |-> LoopThread, outcome |-> "result"]
    /\ \E f \in FutIds : futs[f].state \in {"result", "exception"}
                          /\ \A thread \in PrimitiveThreads : f \notin held[thread]
    /\ subs = {}
    /\ ~InResult(LoopThread)

====
